---- MODULE Spec2Model ----
(***************************************************************************)
(* A model of the Scheme interpreter's parser (src/src/parser.cpp) and     *)
(* evaluator (src/unnamed/part_000, evaluation.cpp).                       *)
(*                                                                         *)
(* Syntax, Expr and Value objects are records tagged by the field t.       *)
(* Heap objects that the C++ code compares by address (pairs, procedures,  *)
(* strings, rationals, the terminate sentinel) carry an id.                *)
(* An Assoc is a pointer (0 is the empty Assoc) into the sequence of       *)
(* AssocList nodes [x, v, next].                                           *)
(***************************************************************************)
EXTENDS Integers, Sequences, FiniteSets, TLC

VARIABLES
    global_env,   \* the REPL's Assoc (pointer to the innermost AssocList node)
    store,        \* the heap: [assoc, pairs, nid, out, trace]
    session,      \* which family of top-level forms this run draws from
    form,         \* index in Forms of the last top-level form read (0: none)
    result,       \* outcome of the last top-level form: [k, v]
    count,        \* number of top-level forms read so far
    argOrder,     \* order in which this build evaluates function arguments
    halted,       \* the REPL has seen the Terminate sentinel
    numA,         \* first operand of the numeric primitive under test
    numB,         \* second operand of the numeric primitive under test
    varResult     \* outcome of the variadic node applied to the same operands

vars == <<global_env, store, session, form, result, count, argOrder, halted,
          numA, numB, varResult>>

-----------------------------------------------------------------------------
(* Bounds of the model. *)

\* number of top-level forms one REPL run reads
MaxForms == 4
\* depth of nested procedure calls before an evaluation is cut off
MaxDepth == 14
\* largest argument of the recursive procedure fact
MaxN == 5
\* largest argument of the mutually recursive procedures even? and odd?
MaxEven == 10

-----------------------------------------------------------------------------
(* Syntax: the reader's S-expressions. *)

Num(n) == [t |-> "Number", n |-> n]
Rat(p, q) == [t |-> "RationalSyntax", numerator |-> p, denominator |-> q]
Sym(s) == [t |-> "SymbolSyntax", s |-> s]
Str(s) == [t |-> "StringSyntax", s |-> s]
TrueS == [t |-> "TrueSyntax"]
FalseS == [t |-> "FalseSyntax"]
L(stxs) == [t |-> "List", stxs |-> stxs]

-----------------------------------------------------------------------------
(* The primitive and reserved-word tables (Def.cpp). *)

primitives ==
    ("+" :> "E_PLUS") @@ ("-" :> "E_MINUS") @@ ("*" :> "E_MUL") @@
    ("/" :> "E_DIV") @@ ("modulo" :> "E_MODULO") @@ ("expt" :> "E_EXPT") @@
    ("<" :> "E_LT") @@ ("<=" :> "E_LE") @@ ("=" :> "E_EQ") @@
    (">=" :> "E_GE") @@ (">" :> "E_GT") @@
    ("cons" :> "E_CONS") @@ ("car" :> "E_CAR") @@ ("cdr" :> "E_CDR") @@
    ("list" :> "E_LIST") @@ ("set-car!" :> "E_SETCAR") @@
    ("set-cdr!" :> "E_SETCDR") @@ ("not" :> "E_NOT") @@ ("eq?" :> "E_EQQ") @@
    ("boolean?" :> "E_BOOLQ") @@ ("number?" :> "E_INTQ") @@
    ("null?" :> "E_NULLQ") @@ ("pair?" :> "E_PAIRQ") @@
    ("procedure?" :> "E_PROCQ") @@ ("symbol?" :> "E_SYMBOLQ") @@
    ("list?" :> "E_LISTQ") @@ ("string?" :> "E_STRINGQ") @@
    ("void" :> "E_VOID") @@ ("exit" :> "E_EXIT") @@ ("display" :> "E_DISPLAY")

reserved_words ==
    ("begin" :> "E_BEGIN") @@ ("quote" :> "E_QUOTE") @@ ("if" :> "E_IF") @@
    ("cond" :> "E_COND") @@ ("lambda" :> "E_LAMBDA") @@
    ("define" :> "E_DEFINE") @@ ("let" :> "E_LET") @@
    ("letrec" :> "E_LETREC") @@ ("set!" :> "E_SET") @@
    ("and" :> "E_AND") @@ ("or" :> "E_OR")

-----------------------------------------------------------------------------
(* Values (value.cpp). *)

NullPtr == [t |-> "nullptr"]
IntegerV(n) == [t |-> "V_INT", n |-> n]
RationalV(id, p, q) ==
    [t |-> "V_RATIONAL", id |-> id, numerator |-> p, denominator |-> q]
BooleanV(b) == [t |-> "V_BOOL", b |-> b]
SymbolV(s) == [t |-> "V_SYM", s |-> s]
StringV(id, s) == [t |-> "V_STRING", id |-> id, s |-> s]
NullV == [t |-> "V_NULL"]
VoidV == [t |-> "V_VOID"]
TerminateV(id) == [t |-> "V_TERMINATE", id |-> id]
PairV(id) == [t |-> "V_PAIR", id |-> id]
ProcedureV(id, xs, e, env) ==
    [t |-> "V_PROC", id |-> id, parameters |-> xs, e |-> e, env |-> env]

RuntimeError(msg) == [t |-> "RuntimeError", msg |-> msg]

-----------------------------------------------------------------------------
(* The environment (value.cpp): a chain of AssocList nodes. *)

empty == 0

RECURSIVE find(_, _, _)
\* the value of the innermost node named x on the chain from l, or the null
\* Value when there is none
find(x, l, assoc) ==
    IF l = 0 THEN NullPtr
    ELSE IF assoc[l].x = x THEN assoc[l].v
    ELSE find(x, assoc[l].next, assoc)

RECURSIVE findNode(_, _, _)
\* the innermost node named x on the chain from l (0: none)
findNode(x, l, assoc) ==
    IF l = 0 THEN 0
    ELSE IF assoc[l].x = x THEN l
    ELSE findNode(x, assoc[l].next, assoc)

\* extend allocates a new head node in front of l; l itself is untouched
extend(x, v, l, assoc) == Append(assoc, [x |-> x, v |-> v, next |-> l])

\* modify overwrites the value of the innermost node named x
modify(x, v, l, assoc) ==
    LET i == findNode(x, l, assoc)
    IN  IF i = 0 THEN assoc ELSE [assoc EXCEPT ![i].v = v]

RECURSIVE names(_, _)
\* the names bound on the chain from l, innermost first
names(l, assoc) ==
    IF l = 0 THEN <<>> ELSE <<assoc[l].x>> \o names(assoc[l].next, assoc)

-----------------------------------------------------------------------------
(* Integer helpers. *)

INT_MAX == 2147483647
INT_MIN == -INT_MAX - 1

\* the magnitude of an int, as negating a negative one computes it;
\* -INT_MIN overflows: where int wraps around it is INT_MIN again (the
\* operations that can meet it mark their outcome undefined)
Abs(a) == IF a = INT_MIN THEN INT_MIN ELSE IF a < 0 THEN -a ELSE a

\* a / b for b > 0, truncated toward zero
TDivPos(a, b) ==
    IF a >= 0 THEN a \div b
    ELSE IF a % b = 0 THEN a \div b ELSE (a \div b) + 1

\* C++ integer division and remainder (truncation toward zero), b # 0.
\* INT_MIN / -1 overflows: where it does not trap, INT_MIN and remainder 0
\* are left.
TDiv(a, b) ==
    CASE b = INT_MIN -> IF a = INT_MIN THEN 1 ELSE 0
      [] a = INT_MIN /\ b = -1 -> INT_MIN
      [] b > 0 -> TDivPos(a, b)
      [] OTHER -> -TDivPos(a, -b)

TRem(a, b) ==
    CASE b = INT_MIN -> IF a = INT_MIN THEN 0 ELSE a
      [] a = INT_MIN /\ b = -1 -> 0
      [] OTHER -> a - b * TDiv(a, b)

RECURSIVE gcdLoop(_, _)
\* Euclid's algorithm on ints: while (b != 0) { t = a % b; a = b; b = t; }
gcdLoop(a, b) == IF b = 0 THEN a ELSE gcdLoop(b, TRem(a, b))

\* expr.cpp: the gcd of the magnitudes; gcd(0, 0) = 0.  The magnitude of
\* INT_MIN overflows, and the result can then be negative.
gcd(a, b) == gcdLoop(Abs(a), Abs(b))

-----------------------------------------------------------------------------
(* Arithmetic on Integer and Rational values.  id is the address a newly   *)
(* allocated Rational gets.                                                *)

IsErr(v) == v.t = "RuntimeError"

\* whether the int operation a + b, a - b, a * b leaves the range of int
\* (signed overflow: undefined behaviour)
AddOvf(a, b) == IF b >= 0 THEN a > INT_MAX - b ELSE a < INT_MIN - b

SubOvf(a, b) == IF b >= 0 THEN a < INT_MIN + b ELSE a > INT_MAX + b

MulOvf(a, b) ==
    CASE a = 0 \/ b = 0 -> FALSE
      [] a = INT_MIN -> b # 1
      [] b = INT_MIN -> a # 1
      [] Abs(b) = 1 -> FALSE
      [] (a > 0) = (b > 0) -> Abs(a) > INT_MAX \div Abs(b)
      [] OTHER ->
            Abs(a) > (IF INT_MAX % Abs(b) = Abs(b) - 1
                      THEN INT_MAX \div Abs(b) + 1 ELSE INT_MAX \div Abs(b))

\* what the operation leaves in a build where int wraps around (modulo 2^32)
AddWrap(a, b) ==
    IF ~AddOvf(a, b) THEN a + b
    ELSE IF b > 0 THEN (a - INT_MAX - 1) + (b - INT_MAX - 1)
    ELSE (a + INT_MAX + 1) + (b + INT_MAX + 1)

NegWrap(a) == IF a = INT_MIN THEN INT_MIN ELSE -a

SubWrap(a, b) ==
    IF ~SubOvf(a, b) THEN a - b
    ELSE IF b = INT_MIN THEN a + INT_MIN
    ELSE AddWrap(a, -b)

\* x * f modulo 2^32 as an int, where m * f = 2^32
ShlWrap(x, m, f) ==
    LET r == x % m IN IF r >= m \div 2 THEN (r - m) * f ELSE r * f

\* the product by 16-bit halves: a = ah * 2^16 + al, b = bh * 2^16 + bl
MulWrap(a, b) ==
    LET al == a % 65536
        ah == (a - al) \div 65536
        bl == b % 65536
        bh == (b - bl) \div 65536
        low == AddWrap(al * (bl % 256), ShlWrap(al * (bl \div 256), 16777216, 256))
        mid == ((ah * bl) % 65536) + ((al * bh) % 65536)
    IN  IF ~MulOvf(a, b) THEN a * b
        ELSE AddWrap(low, ShlWrap(mid, 65536, 65536))

\* an int of the code together with whether computing it overflowed
IntOf(n) == [n |-> n, ub |-> FALSE]
iAdd(x, y) == [n |-> AddWrap(x.n, y.n), ub |-> x.ub \/ y.ub \/ AddOvf(x.n, y.n)]
iSub(x, y) == [n |-> SubWrap(x.n, y.n), ub |-> x.ub \/ y.ub \/ SubOvf(x.n, y.n)]
iMul(x, y) == [n |-> MulWrap(x.n, y.n), ub |-> x.ub \/ y.ub \/ MulOvf(x.n, y.n)]

\* the outcome of an operation that performed an undefined machine
\* operation; wrapped is what a build that wraps around goes on with
Undefined(wrapped) == [t |-> "undefined", wrapped |-> wrapped]
Wrapped(v) == IF v.t = "undefined" THEN v.wrapped ELSE v
Tainted(ub, v) == IF ub /\ v.t # "undefined" THEN Undefined(v) ELSE v

\* the tail of every rational branch: divide by the gcd, make the
\* denominator positive, return an Integer when the denominator is 1;
\* num and den are ints as computed (IntOf, iAdd, ...).  With INT_MIN the
\* magnitude taken by gcd, the division by a gcd of -1 and the negation
\* overflow: the outcome is undefined, and a build that wraps around goes
\* on through the same steps with the wrapped ints.
reduce(num, den, id) ==
    LET low == num.n = INT_MIN \/ den.n = INT_MIN
        g  == gcd(num.n, den.n)
        n1 == IF g # 0 THEN TDiv(num.n, g) ELSE num.n
        d1 == IF g # 0 THEN TDiv(den.n, g) ELSE den.n
        n2 == IF d1 < 0 THEN NegWrap(n1) ELSE n1
        d2 == IF d1 < 0 THEN NegWrap(d1) ELSE d1
        ub == \/ num.ub \/ den.ub
              \/ low
              \/ d1 < 0 /\ (n1 = INT_MIN \/ d1 = INT_MIN)
    IN  Tainted(ub, IF d2 = 1 THEN IntegerV(n2) ELSE RationalV(id, n2, d2))

\* an operand's int field
nOf(v) == IntOf(v.n)
numOf(v) == IntOf(v.numerator)
denOf(v) == IntOf(v.denominator)

addValues(v1, v2, id) ==
    CASE v1.t = "V_INT" /\ v2.t = "V_INT" ->
            Tainted(AddOvf(v1.n, v2.n), IntegerV(AddWrap(v1.n, v2.n)))
      [] v1.t = "V_RATIONAL" /\ v2.t = "V_RATIONAL" ->
            reduce(iAdd(iMul(numOf(v1), denOf(v2)), iMul(numOf(v2), denOf(v1))),
                   iMul(denOf(v1), denOf(v2)), id)
      [] v1.t = "V_INT" /\ v2.t = "V_RATIONAL" ->
            reduce(iAdd(iMul(nOf(v1), denOf(v2)), numOf(v2)), denOf(v2), id)
      [] v1.t = "V_RATIONAL" /\ v2.t = "V_INT" ->
            reduce(iAdd(numOf(v1), iMul(nOf(v2), denOf(v1))), denOf(v1), id)
      [] OTHER -> RuntimeError("Wrong typename in addition")

subtractValues(v1, v2, id) ==
    CASE v1.t = "V_INT" /\ v2.t = "V_INT" ->
            Tainted(SubOvf(v1.n, v2.n), IntegerV(SubWrap(v1.n, v2.n)))
      [] v1.t = "V_RATIONAL" /\ v2.t = "V_RATIONAL" ->
            reduce(iSub(iMul(numOf(v1), denOf(v2)), iMul(numOf(v2), denOf(v1))),
                   iMul(denOf(v1), denOf(v2)), id)
      [] v1.t = "V_INT" /\ v2.t = "V_RATIONAL" ->
            reduce(iSub(iMul(nOf(v1), denOf(v2)), numOf(v2)), denOf(v2), id)
      [] v1.t = "V_RATIONAL" /\ v2.t = "V_INT" ->
            reduce(iSub(numOf(v1), iMul(nOf(v2), denOf(v1))), denOf(v1), id)
      [] OTHER -> RuntimeError("Wrong typename in subtraction")

multiplyValues(v1, v2, id) ==
    CASE v1.t = "V_INT" /\ v2.t = "V_INT" ->
            Tainted(MulOvf(v1.n, v2.n), IntegerV(MulWrap(v1.n, v2.n)))
      [] v1.t = "V_RATIONAL" /\ v2.t = "V_RATIONAL" ->
            reduce(iMul(numOf(v1), numOf(v2)), iMul(denOf(v1), denOf(v2)), id)
      [] v1.t = "V_INT" /\ v2.t = "V_RATIONAL" ->
            reduce(iMul(nOf(v1), numOf(v2)), denOf(v2), id)
      [] v1.t = "V_RATIONAL" /\ v2.t = "V_INT" ->
            reduce(iMul(numOf(v1), nOf(v2)), denOf(v1), id)
      [] OTHER -> RuntimeError("Wrong typename in multiplication")

divideValues(v1, v2, id) ==
    CASE v1.t = "V_INT" /\ v2.t = "V_INT" ->
            IF v2.n = 0 THEN RuntimeError("Division by zero")
            ELSE reduce(nOf(v1), nOf(v2), id)
      [] v1.t = "V_RATIONAL" /\ v2.t = "V_RATIONAL" ->
            IF v2.numerator = 0 THEN RuntimeError("Division by zero")
            ELSE reduce(iMul(numOf(v1), denOf(v2)), iMul(denOf(v1), numOf(v2)), id)
      [] v1.t = "V_INT" /\ v2.t = "V_RATIONAL" ->
            IF v2.numerator = 0 THEN RuntimeError("Division by zero")
            ELSE reduce(iMul(nOf(v1), denOf(v2)), numOf(v2), id)
      [] v1.t = "V_RATIONAL" /\ v2.t = "V_INT" ->
            IF v2.n = 0 THEN RuntimeError("Division by zero")
            ELSE reduce(numOf(v1), iMul(denOf(v1), nOf(v2)), id)
      [] OTHER -> RuntimeError("Wrong typename in division")

\* dividend % divisor; INT_MIN % -1 is undefined (the quotient overflows):
\* the division instruction traps, or the remainder 0 is left
Modulo_evalRator(rand1, rand2) ==
    IF rand1.t = "V_INT" /\ rand2.t = "V_INT"
    THEN CASE rand2.n = 0 -> RuntimeError("Division by zero")
           [] rand1.n = INT_MIN /\ rand2.n = -1 -> Undefined(IntegerV(0))
           [] OTHER -> IntegerV(TRem(rand1.n, rand2.n))
    ELSE RuntimeError("modulo is only defined for integers")

\* the long long b of Expt::evalRator: its value n while that is within
\* int, and wide once it is not (b * b of an int b: below 2^62)
Long(n) == [n |-> n, wide |-> FALSE]
Wide == [n |-> 0, wide |-> TRUE]

RECURSIVE exptLoop_strict(_, _, _)
\* a loop that rejects a wide b * b in the last iteration too
exptLoop_strict(res, b, exp) ==
    LET odd == exp % 2 = 1
    IN  CASE exp <= 0 -> IntegerV(res)
          [] odd /\ MulOvf(res, b.n) -> RuntimeError("Integer overflow in expt")
          [] MulOvf(b.n, b.n) -> RuntimeError("Integer overflow in expt")
          [] OTHER -> exptLoop_strict(IF odd THEN res * b.n ELSE res,
                                      Long(b.n * b.n), exp \div 2)

RECURSIVE exptLoop(_, _, _)
\* the square-and-multiply loop of Expt::evalRator on (result, b, exp);
\* result is within int at the head of every iteration.  A product with a
\* wide factor can leave long long.
exptLoop(res, b, exp) ==
    LET odd == exp % 2 = 1
    IN  CASE exp <= 0 -> IntegerV(res)
          [] b.wide -> Undefined(IntegerV(res))
          [] odd /\ MulOvf(res, b.n) -> RuntimeError("Integer overflow in expt")
          [] MulOvf(b.n, b.n) /\ exp > 1 -> RuntimeError("Integer overflow in expt")
          [] OTHER -> exptLoop(IF odd THEN res * b.n ELSE res,
                               IF MulOvf(b.n, b.n) THEN Wide ELSE Long(b.n * b.n),
                               exp \div 2)

Expt_evalRator(rand1, rand2) ==
    IF rand1.t = "V_INT" /\ rand2.t = "V_INT"
    THEN IF rand2.n < 0
         THEN RuntimeError("Negative exponent not supported for integers")
         ELSE IF rand1.n = 0 /\ rand2.n = 0
              THEN RuntimeError("0^0 is undefined")
              ELSE exptLoop(1, Long(rand1.n), rand2.n)
    ELSE RuntimeError("Wrong typename")

\* -1, 0 or 1 (as an Integer value), or the error thrown; left and right
\* are ints, and the products that make them can overflow
compareNumericValues(v1, v2) ==
    LET sign(left, right) ==
            Tainted(left.ub \/ right.ub,
                    IntegerV(IF left.n < right.n THEN -1
                             ELSE IF left.n > right.n THEN 1 ELSE 0))
    IN  CASE v1.t = "V_INT" /\ v2.t = "V_INT" -> sign(nOf(v1), nOf(v2))
          [] v1.t = "V_RATIONAL" /\ v2.t = "V_INT" ->
                sign(numOf(v1), iMul(nOf(v2), denOf(v1)))
          [] v1.t = "V_INT" /\ v2.t = "V_RATIONAL" ->
                sign(iMul(nOf(v1), denOf(v2)), numOf(v2))
          [] v1.t = "V_RATIONAL" /\ v2.t = "V_RATIONAL" ->
                sign(iMul(numOf(v1), denOf(v2)), iMul(numOf(v2), denOf(v1)))
          [] OTHER -> RuntimeError("Wrong typename in numeric comparison")

\* whether the relation of a binary comparison node holds of the sign c
relHolds(t, c) ==
    CASE t = "Less" -> c < 0
      [] t = "LessEq" -> c <= 0
      [] t = "Equal" -> c = 0
      [] t = "GreaterEq" -> c >= 0
      [] t = "Greater" -> c > 0

\* Less, LessEq, Equal, GreaterEq, Greater ::evalRator
Compare_evalRator(t, rand1, rand2) ==
    LET c == compareNumericValues(rand1, rand2)
    IN  IF IsErr(c) THEN c
        ELSE Tainted(c.t = "undefined", BooleanV(relHolds(t, Wrapped(c).n)))

-----------------------------------------------------------------------------
(* Expr nodes (expr.hpp). *)

Fixnum(n) == [t |-> "Fixnum", n |-> n]
RationalNum(p, q) == [t |-> "RationalNum", numerator |-> p, denominator |-> q]
StringExpr(s) == [t |-> "StringExpr", s |-> s]
Var(x) == [t |-> "Var", x |-> x]
Unary(t, rand) == [t |-> t, rand |-> rand]
Binary(t, rand1, rand2) == [t |-> t, rand1 |-> rand1, rand2 |-> rand2]
Variadic(t, rands) == [t |-> t, rands |-> rands]
Quote(stx) == [t |-> "Quote", stx |-> stx]
Begin(es) == [t |-> "Begin", es |-> es]
If(c, conseq, alter) == [t |-> "If", cond |-> c, conseq |-> conseq, alter |-> alter]
Cond(clauses) == [t |-> "Cond", clauses |-> clauses]
Lambda(xs, body) == [t |-> "Lambda", params |-> xs, body |-> body]
Apply(rator, rands) == [t |-> "Apply", rator |-> rator, rands |-> rands]
Define(var, body) == [t |-> "Define", var |-> var, body |-> body]
Let(bind, body) == [t |-> "Let", bind |-> bind, body |-> body]
Letrec(bind, body) == [t |-> "Letrec", bind |-> bind, body |-> body]
Set(var, body) == [t |-> "Set", var |-> var, body |-> body]
Binding(x, e) == [t |-> "binding", first |-> x, second |-> e]

UnaryTypes ==
    {"Car", "Cdr", "Not", "IsBoolean", "IsFixnum", "IsNull", "IsPair",
     "IsProcedure", "IsSymbol", "IsList", "IsString", "Display"}
ArithTypes == {"Plus", "Minus", "Mult", "Div"}
CompareTypes == {"Less", "LessEq", "Equal", "GreaterEq", "Greater"}
BinaryTypes ==
    ArithTypes \cup CompareTypes \cup
    {"Modulo", "Expt", "Cons", "SetCar", "SetCdr", "IsEq"}
ArithVarTypes == {"PlusVar", "MinusVar", "MultVar", "DivVar"}
CompareVarTypes ==
    {"LessVar", "LessEqVar", "EqualVar", "GreaterEqVar", "GreaterVar"}
VariadicTypes == ArithVarTypes \cup CompareVarTypes \cup {"ListFunc"}

-----------------------------------------------------------------------------
(* The parser (parser.cpp).  A parse returns an Expr, or the RuntimeError  *)
(* it throws.                                                              *)

HasErr(es) == \E i \in DOMAIN es : IsErr(es[i])

\* the error a left-to-right loop over es throws first
FirstErr(es) ==
    es[CHOOSE i \in DOMAIN es :
            IsErr(es[i]) /\ \A j \in 1..(i - 1) : ~IsErr(es[j])]

Reverse(q) == [i \in 1..Len(q) |-> q[Len(q) + 1 - i]]

\* the error thrown by a call whose arguments es the build evaluates in
\* an order of its choosing
ArgErr(es) == IF argOrder = "rtl" THEN FirstErr(Reverse(es)) ELSE FirstErr(es)

IsSymbolSyntax(s) == s.t = "SymbolSyntax"
IsListSyntax(s) == s.t = "List"

\* the node built for primitive op of type op_type applied to parameters
PrimNode(op, op_type, parameters) ==
    LET n == Len(parameters)
        binOrVar(b, v) ==
            IF n = 2 THEN Binary(b, parameters[1], parameters[2])
            ELSE Variadic(v, parameters)
        arityErr == RuntimeError("Wrong number of arguments for " \o op)
        exactly2(b) ==
            IF n # 2 THEN arityErr ELSE Binary(b, parameters[1], parameters[2])
        exactly1(u) == IF n # 1 THEN arityErr ELSE Unary(u, parameters[1])
        exactly0(z) == IF n # 0 THEN arityErr ELSE [t |-> z]
    IN  CASE op_type = "E_PLUS" -> binOrVar("Plus", "PlusVar")
          [] op_type = "E_MINUS" -> binOrVar("Minus", "MinusVar")
          [] op_type = "E_MUL" -> binOrVar("Mult", "MultVar")
          [] op_type = "E_DIV" -> binOrVar("Div", "DivVar")
          [] op_type = "E_MODULO" -> exactly2("Modulo")
          [] op_type = "E_EXPT" -> exactly2("Expt")
          [] op_type = "E_LT" -> binOrVar("Less", "LessVar")
          [] op_type = "E_LE" -> binOrVar("LessEq", "LessEqVar")
          [] op_type = "E_EQ" -> binOrVar("Equal", "EqualVar")
          [] op_type = "E_GE" -> binOrVar("GreaterEq", "GreaterEqVar")
          [] op_type = "E_GT" -> binOrVar("Greater", "GreaterVar")
          [] op_type = "E_CONS" -> exactly2("Cons")
          [] op_type = "E_CAR" -> exactly1("Car")
          [] op_type = "E_CDR" -> exactly1("Cdr")
          [] op_type = "E_LIST" -> Variadic("ListFunc", parameters)
          [] op_type = "E_SETCAR" -> exactly2("SetCar")
          [] op_type = "E_SETCDR" -> exactly2("SetCdr")
          [] op_type = "E_NOT" -> exactly1("Not")
          [] op_type = "E_AND" -> Variadic("AndVar", parameters)
          [] op_type = "E_OR" -> Variadic("OrVar", parameters)
          [] op_type = "E_EQQ" -> exactly2("IsEq")
          [] op_type = "E_BOOLQ" -> exactly1("IsBoolean")
          [] op_type = "E_INTQ" -> exactly1("IsFixnum")
          [] op_type = "E_NULLQ" -> exactly1("IsNull")
          [] op_type = "E_PAIRQ" -> exactly1("IsPair")
          [] op_type = "E_PROCQ" -> exactly1("IsProcedure")
          [] op_type = "E_SYMBOLQ" -> exactly1("IsSymbol")
          [] op_type = "E_LISTQ" -> exactly1("IsList")
          [] op_type = "E_STRINGQ" -> exactly1("IsString")
          [] op_type = "E_VOID" -> exactly0("MakeVoid")
          [] op_type = "E_EXIT" -> exactly0("Exit")
          [] op_type = "E_DISPLAY" -> exactly1("Display")
          [] OTHER -> RuntimeError("Unknown primitive: " \o op)

RECURSIVE parse(_, _, _)

\* stxs[from .. ] parsed in order
parseFrom(stxs, from, env, assoc) ==
    [i \in 1..(Len(stxs) - from + 1) |-> parse(stxs[i + from - 1], env, assoc)]

\* the parameter names of a lambda or of a define shorthand, or the error
symbolNames(stxs, from, msg) ==
    LET ps == [i \in 1..(Len(stxs) - from + 1) |-> stxs[i + from - 1]]
    IN  IF \E i \in DOMAIN ps : ~IsSymbolSyntax(ps[i])
        THEN RuntimeError(msg)
        ELSE [t |-> "names", xs |-> [i \in DOMAIN ps |-> ps[i].s]]

\* the bindings of a let or letrec, checked and parsed one after the other
parseBindings(stxs, kw, env, assoc) ==
    [i \in DOMAIN stxs |->
        IF ~IsListSyntax(stxs[i]) \/ Len(stxs[i].stxs) # 2
        THEN RuntimeError(kw \o " binding must be a pair")
        ELSE IF ~IsSymbolSyntax(stxs[i].stxs[1])
        THEN RuntimeError(kw \o " variable must be a symbol")
        ELSE LET e == parse(stxs[i].stxs[2], env, assoc)
             IN  IF IsErr(e) THEN e ELSE Binding(stxs[i].stxs[1].s, e)]

\* case E_LET and case E_LETREC
parseLet(stxs, kw, env, assoc) ==
    IF Len(stxs) < 3
    THEN RuntimeError("Wrong number of arguments for " \o kw)
    ELSE IF ~IsListSyntax(stxs[2])
    THEN RuntimeError(kw \o " bindings must be a list")
    ELSE LET bindings == parseBindings(stxs[2].stxs, kw, env, assoc)
             body_exprs == parseFrom(stxs, 3, env, assoc)
         IN  IF HasErr(bindings) THEN FirstErr(bindings)
             ELSE IF HasErr(body_exprs) THEN FirstErr(body_exprs)
             ELSE IF kw = "let" THEN Let(bindings, Begin(body_exprs))
             ELSE Letrec(bindings, Begin(body_exprs))

\* case E_COND
parseCond(stxs, env, assoc) ==
    LET clauses ==
            [i \in 1..(Len(stxs) - 1) |->
                IF ~IsListSyntax(stxs[i + 1])
                THEN <<RuntimeError("cond clause must be a list")>>
                ELSE parseFrom(stxs[i + 1].stxs, 1, env, assoc)]
    IN  IF \E i \in DOMAIN clauses : HasErr(clauses[i])
        THEN FirstErr(clauses[CHOOSE i \in DOMAIN clauses :
                        HasErr(clauses[i])
                        /\ \A j \in 1..(i - 1) : ~HasErr(clauses[j])])
        ELSE Cond(clauses)

\* case E_LAMBDA
parseLambda(stxs, env, assoc) ==
    IF Len(stxs) < 3 THEN RuntimeError("Wrong number of arguments for lambda")
    ELSE IF ~IsListSyntax(stxs[2])
    THEN RuntimeError("lambda parameters must be a list")
    ELSE LET params == symbolNames(stxs[2].stxs, 1,
                                   "lambda parameter must be a symbol")
             body_exprs == parseFrom(stxs, 3, env, assoc)
         IN  IF IsErr(params) THEN params
             ELSE IF HasErr(body_exprs) THEN FirstErr(body_exprs)
             ELSE Lambda(params.xs, Begin(body_exprs))

\* case E_DEFINE
parseDefine(stxs, env, assoc) ==
    IF Len(stxs) < 3 THEN RuntimeError("Wrong number of arguments for define")
    ELSE LET body_exprs == parseFrom(stxs, 3, env, assoc)
         IN  IF IsSymbolSyntax(stxs[2])
             THEN IF HasErr(body_exprs) THEN FirstErr(body_exprs)
                  ELSE Define(stxs[2].s, Begin(body_exprs))
             ELSE IF ~IsListSyntax(stxs[2]) \/ Len(stxs[2].stxs) = 0
             THEN RuntimeError("Invalid define syntax")
             ELSE IF ~IsSymbolSyntax(stxs[2].stxs[1])
             THEN RuntimeError("Function name must be a symbol")
             ELSE LET params == symbolNames(stxs[2].stxs, 2,
                                    "Function parameter must be a symbol")
                  IN  IF IsErr(params) THEN params
                      ELSE IF HasErr(body_exprs) THEN FirstErr(body_exprs)
                      ELSE Define(stxs[2].stxs[1].s,
                                  Lambda(params.xs, Begin(body_exprs)))

\* the switch over reserved_words[op]
parseReserved(op, stxs, env, assoc) ==
    LET ty == reserved_words[op]
    IN  CASE ty = "E_BEGIN" ->
                LET exprs == parseFrom(stxs, 2, env, assoc)
                IN  IF HasErr(exprs) THEN FirstErr(exprs) ELSE Begin(exprs)
          [] ty = "E_QUOTE" ->
                IF Len(stxs) # 2
                THEN RuntimeError("Wrong number of arguments for quote")
                ELSE Quote(stxs[2])
          [] ty = "E_IF" ->
                IF Len(stxs) # 4
                THEN RuntimeError("Wrong number of arguments for if")
                ELSE LET es == parseFrom(stxs, 2, env, assoc)
                     IN  IF HasErr(es) THEN ArgErr(es)
                         ELSE If(es[1], es[2], es[3])
          [] ty = "E_COND" -> parseCond(stxs, env, assoc)
          [] ty = "E_LAMBDA" -> parseLambda(stxs, env, assoc)
          [] ty = "E_DEFINE" -> parseDefine(stxs, env, assoc)
          [] ty = "E_LET" -> parseLet(stxs, "let", env, assoc)
          [] ty = "E_LETREC" -> parseLet(stxs, "letrec", env, assoc)
          [] ty = "E_SET" ->
                IF Len(stxs) # 3
                THEN RuntimeError("Wrong number of arguments for set!")
                ELSE IF ~IsSymbolSyntax(stxs[2])
                THEN RuntimeError("set! variable must be a symbol")
                ELSE LET e == parse(stxs[3], env, assoc)
                     IN  IF IsErr(e) THEN e ELSE Set(stxs[2].s, e)
          [] OTHER -> RuntimeError("Unknown reserved word: " \o op)

\* Apply(stxs[0].parse(env), parameters): the parameters are parsed first
parseApply(stxs, env, assoc) ==
    LET parameters == parseFrom(stxs, 2, env, assoc)
        rator == parse(stxs[1], env, assoc)
    IN  IF HasErr(parameters) THEN FirstErr(parameters)
        ELSE IF IsErr(rator) THEN rator
        ELSE Apply(rator, parameters)

\* List::parse
parseList(stxs, env, assoc) ==
    IF Len(stxs) = 0 THEN Quote(L(<<>>))
    ELSE IF ~IsSymbolSyntax(stxs[1]) THEN parseApply(stxs, env, assoc)
    ELSE LET op == stxs[1].s
         IN  IF find(op, env, assoc).t # "nullptr"
             THEN parseApply(stxs, env, assoc)
             ELSE IF op \in DOMAIN primitives
             THEN LET parameters == parseFrom(stxs, 2, env, assoc)
                  IN  IF HasErr(parameters) THEN FirstErr(parameters)
                      ELSE PrimNode(op, primitives[op], parameters)
             ELSE IF op \in DOMAIN reserved_words
             THEN parseReserved(op, stxs, env, assoc)
             ELSE parseApply(stxs, env, assoc)

\* Syntax::parse
parse(s, env, assoc) ==
    CASE s.t = "Number" -> Fixnum(s.n)
      [] s.t = "RationalSyntax" -> RationalNum(s.numerator, s.denominator)
      [] s.t = "SymbolSyntax" -> Var(s.s)
      [] s.t = "StringSyntax" -> StringExpr(s.s)
      [] s.t = "TrueSyntax" -> [t |-> "True"]
      [] s.t = "FalseSyntax" -> [t |-> "False"]
      [] s.t = "List" -> parseList(s.stxs, env, assoc)

-----------------------------------------------------------------------------
(* The store threaded through an evaluation:                               *)
(*   assoc  the AssocList nodes                                            *)
(*   pairs  the Pair objects, [car, cdr]; a Pair value holds its index     *)
(*   nid    the number of other heap objects allocated so far              *)
(*   trace  the side effects of the current top-level form, in order       *)

EmptyStore ==
    [assoc |-> <<>>, pairs |-> <<>>, nid |-> 0, trace |-> <<>>, ub |-> "wrap"]

\* a value (or thrown error) together with the store it leaves
VS(v, st) == [v |-> v, st |-> st]

NewId(st) == st.nid + 1
Alloc(st) == [st EXCEPT !.nid = @ + 1]
Log(ev, st) == [st EXCEPT !.trace = Append(@, ev)]

\* PairV(car, cdr): a fresh Pair object
NewPair(car, cdr, st) ==
    VS(PairV(Len(st.pairs) + 1),
       [st EXCEPT !.pairs = Append(@, [car |-> car, cdr |-> cdr])])

IsFalse(v) == v.t = "V_BOOL" /\ ~v.b

\* whether two values are the same object
SameObject(v1, v2) ==
    /\ v1.t = v2.t
    /\ v1.t \in {"V_PAIR", "V_PROC", "V_STRING", "V_RATIONAL", "V_TERMINATE"}
    /\ v1.id = v2.id

IsEq_evalRator(rand1, rand2) ==
    IF rand1.t = "V_INT" /\ rand2.t = "V_INT" THEN BooleanV(rand1.n = rand2.n)
    ELSE IF rand1.t = "V_BOOL" /\ rand2.t = "V_BOOL"
    THEN BooleanV(rand1.b = rand2.b)
    ELSE IF rand1.t = "V_SYM" /\ rand2.t = "V_SYM"
    THEN BooleanV(rand1.s = rand2.s)
    ELSE IF (rand1.t = "V_NULL" /\ rand2.t = "V_NULL")
            \/ (rand1.t = "V_VOID" /\ rand2.t = "V_VOID")
    THEN BooleanV(TRUE)
    ELSE BooleanV(SameObject(rand1, rand2))

\* a set-car! that writes to a copy of the pair
SetCar_evalRator_copy(rand1, rand2, st) ==
    IF rand1.t # "V_PAIR"
    THEN VS(RuntimeError("set-car!: first argument must be a pair"), st)
    ELSE VS(VoidV, Log([ev |-> "set-car!", id |-> rand1.id],
                       [st EXCEPT !.pairs = Append(@, [car |-> rand2,
                                                       cdr |-> @[rand1.id].cdr])]))

SetCar_evalRator(rand1, rand2, st) ==
    IF rand1.t # "V_PAIR"
    THEN VS(RuntimeError("set-car!: first argument must be a pair"), st)
    ELSE VS(VoidV, Log([ev |-> "set-car!", id |-> rand1.id],
                       [st EXCEPT !.pairs[rand1.id].car = rand2]))

SetCdr_evalRator(rand1, rand2, st) ==
    IF rand1.t # "V_PAIR"
    THEN VS(RuntimeError("set-cdr!: first argument must be a pair"), st)
    ELSE VS(VoidV, Log([ev |-> "set-cdr!", id |-> rand1.id],
                       [st EXCEPT !.pairs[rand1.id].cdr = rand2]))

\* Binary::evalRator of the node of type t
Binary_evalRator(t, rand1, rand2, st) ==
    CASE t = "Plus" -> VS(addValues(rand1, rand2, NewId(st)), Alloc(st))
      [] t = "Minus" -> VS(subtractValues(rand1, rand2, NewId(st)), Alloc(st))
      [] t = "Mult" -> VS(multiplyValues(rand1, rand2, NewId(st)), Alloc(st))
      [] t = "Div" -> VS(divideValues(rand1, rand2, NewId(st)), Alloc(st))
      [] t = "Modulo" -> VS(Modulo_evalRator(rand1, rand2), st)
      [] t = "Expt" -> VS(Expt_evalRator(rand1, rand2), st)
      [] t \in CompareTypes -> VS(Compare_evalRator(t, rand1, rand2), st)
      [] t = "Cons" -> NewPair(rand1, rand2, st)
      [] t = "SetCar" -> SetCar_evalRator(rand1, rand2, st)
      [] t = "SetCdr" -> SetCdr_evalRator(rand1, rand2, st)
      [] t = "IsEq" -> VS(IsEq_evalRator(rand1, rand2), st)

RECURSIVE listWalk_stop(_, _, _)
\* a variant that gives up with #f at a pair it has passed before
listWalk_stop(curr, pairs, seen) ==
    IF curr.t # "V_PAIR" THEN BooleanV(curr.t = "V_NULL")
    ELSE IF curr.id \in seen THEN BooleanV(FALSE)
    ELSE listWalk_stop(pairs[curr.id].cdr, pairs, seen \cup {curr.id})

RECURSIVE listWalk(_, _, _)
\* the while loop of IsList::evalRator from curr; seen are the pairs
\* already passed, and a pair met twice means the loop never ends
listWalk(curr, pairs, seen) ==
    IF curr.t # "V_PAIR" THEN BooleanV(curr.t = "V_NULL")
    ELSE IF curr.id \in seen THEN [t |-> "diverges"]
    ELSE listWalk(pairs[curr.id].cdr, pairs, seen \cup {curr.id})

IsList_evalRator(rand, st) ==
    IF rand.t = "V_NULL" THEN BooleanV(TRUE)
    ELSE IF rand.t # "V_PAIR" THEN BooleanV(FALSE)
    ELSE listWalk(rand, st.pairs, {})

\* Unary::evalRator of the node of type t
Unary_evalRator(t, rand, st) ==
    CASE t = "Car" ->
            IF rand.t # "V_PAIR"
            THEN VS(RuntimeError("car: argument must be a pair"), st)
            ELSE VS(st.pairs[rand.id].car, st)
      [] t = "Cdr" ->
            IF rand.t # "V_PAIR"
            THEN VS(RuntimeError("cdr: argument must be a pair"), st)
            ELSE VS(st.pairs[rand.id].cdr, st)
      [] t = "Not" -> VS(BooleanV(IsFalse(rand)), st)
      [] t = "IsBoolean" -> VS(BooleanV(rand.t = "V_BOOL"), st)
      [] t = "IsFixnum" -> VS(BooleanV(rand.t = "V_INT"), st)
      [] t = "IsNull" -> VS(BooleanV(rand.t = "V_NULL"), st)
      [] t = "IsPair" -> VS(BooleanV(rand.t = "V_PAIR"), st)
      [] t = "IsProcedure" -> VS(BooleanV(rand.t = "V_PROC"), st)
      [] t = "IsSymbol" -> VS(BooleanV(rand.t = "V_SYM"), st)
      [] t = "IsString" -> VS(BooleanV(rand.t = "V_STRING"), st)
      [] t = "IsList" -> VS(IsList_evalRator(rand, st), st)
      [] t = "Display" -> VS(VoidV, Log([ev |-> "display", v |-> rand], st))

\* the binary helper a variadic arithmetic node folds with
arith(t, v1, v2, id) ==
    CASE t = "PlusVar" -> addValues(v1, v2, id)
      [] t = "MinusVar" -> subtractValues(v1, v2, id)
      [] t = "MultVar" -> multiplyValues(v1, v2, id)
      [] t = "DivVar" -> divideValues(v1, v2, id)

RECURSIVE foldArith(_, _, _, _, _)
\* result = helper(result, args[i]) for i from i on
foldArith(t, args, i, res, id) ==
    IF i > Len(args) \/ IsErr(Wrapped(res)) THEN res
    ELSE foldArith(t, args, i + 1,
                   Tainted(res.t = "undefined",
                           arith(t, Wrapped(res), args[i], id)), id)

\* PlusVar, MinusVar, MultVar, DivVar ::evalRator
ArithVar_evalRator(t, args, id) ==
    IF Len(args) = 0
    THEN CASE t = "PlusVar" -> IntegerV(0)
           [] t = "MultVar" -> IntegerV(1)
           [] t = "MinusVar" -> RuntimeError("Wrong number of arguments for -")
           [] t = "DivVar" -> RuntimeError("Wrong number of arguments for /")
    ELSE IF Len(args) = 1 /\ t = "MinusVar"
    THEN IF args[1].t = "V_INT"
         THEN Tainted(args[1].n = INT_MIN, IntegerV(NegWrap(args[1].n)))
         ELSE IF args[1].t = "V_RATIONAL"
         THEN Tainted(args[1].numerator = INT_MIN,
                      RationalV(id, NegWrap(args[1].numerator),
                                args[1].denominator))
         ELSE RuntimeError("Wrong typename")
    ELSE IF Len(args) = 1 /\ t = "DivVar"
    THEN divideValues(IntegerV(1), args[1], id)
    ELSE foldArith(t, args, 2, args[1], id)

\* a variant that lets <= and >= reject equal neighbours
relFails_strict(t, c) ==
    CASE t = "LessVar" -> c >= 0
      [] t = "LessEqVar" -> c >= 0
      [] t = "EqualVar" -> c # 0
      [] t = "GreaterEqVar" -> c <= 0
      [] t = "GreaterVar" -> c <= 0

\* whether a variadic comparison rejects the sign c of an adjacent pair
relFails(t, c) ==
    CASE t = "LessVar" -> c >= 0
      [] t = "LessEqVar" -> c > 0
      [] t = "EqualVar" -> c # 0
      [] t = "GreaterEqVar" -> c < 0
      [] t = "GreaterVar" -> c <= 0

RECURSIVE chainCompare(_, _, _)
\* the loop over adjacent pairs from index i
chainCompare(t, args, i) ==
    IF i > Len(args) - 1 THEN BooleanV(TRUE)
    ELSE LET c == compareNumericValues(args[i], args[i + 1])
         IN  IF IsErr(c) THEN c
             ELSE IF relFails(t, Wrapped(c).n)
             THEN Tainted(c.t = "undefined", BooleanV(FALSE))
             ELSE Tainted(c.t = "undefined", chainCompare(t, args, i + 1))

\* LessVar, LessEqVar, EqualVar, GreaterEqVar, GreaterVar ::evalRator
CompareVar_evalRator(t, args) ==
    IF Len(args) < 2 THEN BooleanV(TRUE) ELSE chainCompare(t, args, 1)

RECURSIVE ListFunc_evalRator(_, _, _, _)
\* result = PairV(args[i], result) for i from i down to 1
ListFunc_evalRator(args, i, res, st) ==
    IF i < 1 THEN VS(res, st)
    ELSE LET p == NewPair(args[i], res, st)
         IN  ListFunc_evalRator(args, i - 1, p.v, p.st)

\* Variadic::evalRator of the node of type t
Variadic_evalRator(t, args, st) ==
    CASE t \in ArithVarTypes -> VS(ArithVar_evalRator(t, args, NewId(st)), Alloc(st))
      [] t \in CompareVarTypes -> VS(CompareVar_evalRator(t, args), st)
      [] t = "ListFunc" -> ListFunc_evalRator(args, Len(args), NullV, st)

RECURSIVE syntaxToValue(_, _)
RECURSIVE syntaxListToValue(_, _, _, _)

\* the loop of syntaxToValue over a list's elements, last to first
syntaxListToValue(stxs, i, res, st) ==
    IF i < 1 THEN VS(res, st)
    ELSE LET a == syntaxToValue(stxs[i], st)
             p == NewPair(a.v, res, a.st)
         IN  syntaxListToValue(stxs, i - 1, p.v, p.st)

syntaxToValue(s, st) ==
    CASE s.t = "Number" -> VS(IntegerV(s.n), st)
      [] s.t = "RationalSyntax" ->
            VS(RationalV(NewId(st), s.numerator, s.denominator), Alloc(st))
      [] s.t = "TrueSyntax" -> VS(BooleanV(TRUE), st)
      [] s.t = "FalseSyntax" -> VS(BooleanV(FALSE), st)
      [] s.t = "SymbolSyntax" -> VS(SymbolV(s.s), st)
      [] s.t = "StringSyntax" -> VS(StringV(NewId(st), s.s), Alloc(st))
      [] s.t = "List" ->
            IF Len(s.stxs) = 0 THEN VS(NullV, st)
            ELSE syntaxListToValue(s.stxs, Len(s.stxs), NullV, st)

-----------------------------------------------------------------------------
(* The evaluator (evaluation.cpp).                                         *)
(*                                                                         *)
(* eval(x, env, st, fuel) is x->eval(env) started in store st.  It returns *)
(*   k    "ok": a value is returned; "err": a RuntimeError is thrown;      *)
(*        "deep": the calls nest deeper than fuel; "diverges": a loop      *)
(*        that never ends was entered; "undefined": an undefined machine   *)
(*        operation trapped                                                *)
(*   v    the value returned or the error thrown                           *)
(*   env  the caller's Assoc afterwards (eval takes it by reference)       *)
(*   st   the store afterwards                                             *)

R(k, v, env, st) == [k |-> k, v |-> v, env |-> env, st |-> st]
Ok(v, env, st) == R("ok", v, env, st)
Throw(msg, env, st) == R("err", RuntimeError(msg), env, st)

\* the outcome of an evalRator call
\* An undefined operation ends the process where the build traps (st.ub);
\* where it wraps around, the call goes on with the wrapped outcome, and
\* the trace keeps that it happened.
Rator(vs, env) ==
    LET ub == vs.v.t = "undefined"
        v  == Wrapped(vs.v)
        st == IF ub THEN Log([ev |-> "undefined", v |-> v], vs.st) ELSE vs.st
    IN  CASE ub /\ vs.st.ub = "trap" -> R("undefined", v, env, vs.st)
          [] IsErr(v) -> R("err", v, env, st)
          [] v.t = "diverges" -> R("diverges", v, env, st)
          [] OTHER -> Ok(v, env, st)

RECURSIVE eval(_, _, _, _)
RECURSIVE evalEach(_, _, _, _, _, _)

\* for (expr : es) vals.push_back(expr->eval(env)), from index i on;
\* vals are the values so far
evalEach(es, i, vals, env, st, fuel) ==
    LET r == eval(es[i], env, st, fuel)
    IN  CASE i > Len(es) ->
                [k |-> "ok", vals |-> vals, env |-> env, st |-> st]
          [] r.k # "ok" ->
                [k |-> r.k, v |-> r.v, vals |-> vals, env |-> r.env, st |-> r.st]
          [] OTHER -> evalEach(es, i + 1, Append(vals, r.v), r.env, r.st, fuel)

RECURSIVE evalLast(_, _, _, _, _, _)
\* for (expr : es) result = expr->eval(env), from index i on; res is the
\* result so far
evalLast(es, i, res, env, st, fuel) ==
    LET r == eval(es[i], env, st, fuel)
    IN  CASE i > Len(es) -> Ok(res, env, st)
          [] i = Len(es) -> r
          [] r.k # "ok" -> r
          [] OTHER -> evalLast(es, i + 1, r.v, r.env, r.st, fuel)

RECURSIVE extendEach(_, _, _, _, _)
\* for (i) env = extend(xs[i], vals[i], env), from index i on
extendEach(xs, vals, i, env, assoc) ==
    IF i > Len(xs) THEN [env |-> env, assoc |-> assoc]
    ELSE LET a == extend(xs[i], vals[i], env, assoc)
         IN  extendEach(xs, vals, i + 1, Len(a), a)

Unary_eval(x, env, st, fuel) ==
    LET r == eval(x.rand, env, st, fuel)
    IN  CASE r.k # "ok" -> r
          [] OTHER -> Rator(Unary_evalRator(x.t, r.v, r.st), r.env)

\* evalRator(rand1->eval(e), rand2->eval(e)): the two operands are
\* evaluated in the order the build chose
Binary_eval(x, env, st, fuel) ==
    LET fst == IF argOrder = "rtl" THEN x.rand2 ELSE x.rand1
        snd == IF argOrder = "rtl" THEN x.rand1 ELSE x.rand2
        a == eval(fst, env, st, fuel)
        b == eval(snd, a.env, a.st, fuel)
    IN  CASE a.k # "ok" -> a
          [] b.k # "ok" -> b
          [] argOrder = "rtl" ->
                Rator(Binary_evalRator(x.t, b.v, a.v, b.st), b.env)
          [] OTHER -> Rator(Binary_evalRator(x.t, a.v, b.v, b.st), b.env)

Variadic_eval(x, env, st, fuel) ==
    LET r == evalEach(x.rands, 1, <<>>, env, st, fuel)
    IN  CASE r.k # "ok" -> R(r.k, r.v, r.env, r.st)
          [] OTHER -> Rator(Variadic_evalRator(x.t, r.vals, r.st), r.env)

Var_eval(x, env, st) ==
    LET matched_value == find(x.x, env, st.assoc)
    IN  IF matched_value.t = "nullptr"
        THEN IF x.x \in DOMAIN primitives
             THEN Ok(ProcedureV(NewId(st), <<>>, Var(x.x), env), env, Alloc(st))
             ELSE Throw("Undefined variable: " \o x.x, env, st)
        ELSE Ok(matched_value, env, st)

Quote_eval(x, env, st) ==
    LET vs == syntaxToValue(x.stx, st) IN Ok(vs.v, env, vs.st)

Begin_eval(x, env, st, fuel) ==
    CASE Len(x.es) = 0 -> Ok(VoidV, env, st)
      [] OTHER -> evalLast(x.es, 1, VoidV, env, st, fuel)

RECURSIVE andLoop(_, _, _, _, _, _)
andLoop(es, i, res, env, st, fuel) ==
    LET r == eval(es[i], env, st, fuel)
    IN  CASE i > Len(es) -> Ok(res, env, st)
          [] r.k # "ok" -> r
          [] IsFalse(r.v) -> Ok(BooleanV(FALSE), r.env, r.st)
          [] OTHER -> andLoop(es, i + 1, r.v, r.env, r.st, fuel)

AndVar_eval(x, env, st, fuel) ==
    IF Len(x.rands) = 0 THEN Ok(BooleanV(TRUE), env, st)
    ELSE andLoop(x.rands, 1, BooleanV(TRUE), env, st, fuel)

RECURSIVE orLoop(_, _, _, _, _)
orLoop(es, i, env, st, fuel) ==
    LET r == eval(es[i], env, st, fuel)
    IN  CASE i > Len(es) -> Ok(BooleanV(FALSE), env, st)
          [] r.k # "ok" -> r
          [] ~IsFalse(r.v) -> r
          [] OTHER -> orLoop(es, i + 1, r.env, r.st, fuel)

OrVar_eval(x, env, st, fuel) ==
    IF Len(x.rands) = 0 THEN Ok(BooleanV(FALSE), env, st)
    ELSE orLoop(x.rands, 1, env, st, fuel)

If_eval(x, env, st, fuel) ==
    LET cond_val == eval(x.cond, env, st, fuel)
    IN  CASE cond_val.k # "ok" -> cond_val
          [] ~IsFalse(cond_val.v) ->
                eval(x.conseq, cond_val.env, cond_val.st, fuel)
          [] OTHER -> eval(x.alter, cond_val.env, cond_val.st, fuel)

\* clause[1..] evaluated in order, the last value returned
clauseBody(clause, env, st, fuel) ==
    evalLast(clause, 2, VoidV, env, st, fuel)

RECURSIVE condLoop_var(_, _, _, _, _)
\* a loop that evaluates the head else like any other test
condLoop_var(clauses, i, env, st, fuel) ==
    LET clause == clauses[i]
        cond_val == eval(clause[1], env, st, fuel)
    IN  CASE i > Len(clauses) -> Ok(VoidV, env, st)
          [] Len(clause) = 0 -> condLoop_var(clauses, i + 1, env, st, fuel)
          [] cond_val.k # "ok" -> cond_val
          [] ~IsFalse(cond_val.v) /\ Len(clause) = 1 -> cond_val
          [] ~IsFalse(cond_val.v) ->
                clauseBody(clause, cond_val.env, cond_val.st, fuel)
          [] OTHER -> condLoop_var(clauses, i + 1, cond_val.env, cond_val.st, fuel)

RECURSIVE condLoop(_, _, _, _, _)
\* the loop of Cond::eval over the clauses from index i on
condLoop(clauses, i, env, st, fuel) ==
    LET clause == clauses[i]
        cond_val == eval(clause[1], env, st, fuel)
    IN  CASE i > Len(clauses) -> Ok(VoidV, env, st)
          [] Len(clause) = 0 -> condLoop(clauses, i + 1, env, st, fuel)
          [] clause[1].t = "Var" /\ clause[1].x = "else" /\ Len(clause) = 1 ->
                Ok(VoidV, env, st)
          [] clause[1].t = "Var" /\ clause[1].x = "else" ->
                clauseBody(clause, env, st, fuel)
          [] cond_val.k # "ok" -> cond_val
          [] ~IsFalse(cond_val.v) /\ Len(clause) = 1 -> cond_val
          [] ~IsFalse(cond_val.v) ->
                clauseBody(clause, cond_val.env, cond_val.st, fuel)
          [] OTHER -> condLoop(clauses, i + 1, cond_val.env, cond_val.st, fuel)

Cond_eval(x, env, st, fuel) == condLoop(x.clauses, 1, env, st, fuel)

Lambda_eval(x, env, st) ==
    Ok(ProcedureV(NewId(st), x.params, x.body, env), env, Alloc(st))

\* Apply::eval returning with the callee's environment installed in the
\* caller's Assoc
Apply_call_leak(rator_val, args, e, st, fuel) ==
    LET param_env == extendEach(rator_val.parameters, args, 1,
                                rator_val.env, st.assoc)
    IN  CASE Len(args) # Len(rator_val.parameters) ->
                Throw("Wrong number of arguments", e, st)
          [] fuel = 0 -> R("deep", [t |-> "deep"], e, st)
          [] OTHER ->
                eval(rator_val.e, param_env.env,
                     [st EXCEPT !.assoc = param_env.assoc], fuel - 1)

\* Apply::eval once the operator rator_val and the arguments args are
\* evaluated; e is the caller's Assoc
\* Apply::eval extending the caller's environment instead of the captured
\* one (dynamic scope)
Apply_call_dynamic(rator_val, args, e, st, fuel) ==
    LET param_env == extendEach(rator_val.parameters, args, 1, e, st.assoc)
    IN  CASE Len(args) # Len(rator_val.parameters) ->
                Throw("Wrong number of arguments", e, st)
          [] fuel = 0 -> R("deep", [t |-> "deep"], e, st)
          [] OTHER ->
                [eval(rator_val.e, param_env.env,
                      [st EXCEPT !.assoc = param_env.assoc], fuel - 1)
                    EXCEPT !.env = e]

Apply_call(rator_val, args, e, st, fuel) ==
    LET param_env == extendEach(rator_val.parameters, args, 1,
                                rator_val.env, st.assoc)
    IN  CASE Len(args) # Len(rator_val.parameters) ->
                Throw("Wrong number of arguments", e, st)
          [] fuel = 0 -> R("deep", [t |-> "deep"], e, st)
          [] OTHER ->
                [eval(rator_val.e, param_env.env,
                      [st EXCEPT !.assoc = param_env.assoc], fuel - 1)
                    EXCEPT !.env = e]

Apply_eval(x, env, st, fuel) ==
    LET rator_val == eval(x.rator, env, st, fuel)
        args == evalEach(x.rands, 1, <<>>, rator_val.env, rator_val.st, fuel)
    IN  CASE rator_val.k # "ok" -> rator_val
          [] rator_val.v.t # "V_PROC" ->
                Throw("Attempt to apply a non-procedure",
                      rator_val.env, rator_val.st)
          [] args.k # "ok" -> R(args.k, args.v, args.env, args.st)
          [] OTHER ->
                Apply_call(rator_val.v, args.vals, args.env, args.st, fuel)

\* Define::eval that extends env whether or not var is already bound
Define_bind_shadow(var, val, env, st) ==
    LET a == extend(var, val, env, st.assoc)
    IN  Ok(VoidV, Len(a),
           [Log([ev |-> "define", x |-> var], st) EXCEPT !.assoc = a])

\* Define::eval once the right-hand side has evaluated to val: modify the
\* visible binding of var, or extend env in place
Define_bind(var, val, env, st) ==
    LET existing == find(var, env, st.assoc)
        st1 == Log([ev |-> "define", x |-> var], st)
    IN  IF existing.t # "nullptr"
        THEN Ok(VoidV, env, [st1 EXCEPT !.assoc = modify(var, val, env, @)])
        ELSE LET a == extend(var, val, env, st.assoc)
             IN  Ok(VoidV, Len(a), [st1 EXCEPT !.assoc = a])

\* a Define that does not look the name up in the two tables
Define_eval_any(x, env, st, fuel) ==
    LET val == eval(x.body, env, st, fuel)
    IN  CASE val.k # "ok" -> val
          [] OTHER -> Define_bind(x.var, val.v, val.env, val.st)

Define_eval(x, env, st, fuel) ==
    IF x.var \in DOMAIN primitives \/ x.var \in DOMAIN reserved_words
    THEN Throw("Cannot redefine primitive or reserved word: " \o x.var, env, st)
    ELSE LET val == eval(x.body, env, st, fuel)
         IN  CASE val.k # "ok" -> val
               [] OTHER -> Define_bind(x.var, val.v, val.env, val.st)

BindNames(bind) == [i \in DOMAIN bind |-> bind[i].first]
BindExprs(bind) == [i \in DOMAIN bind |-> bind[i].second]

RECURSIVE letSeqLoop(_, _, _, _, _)
\* each right-hand side evaluated in the environment the earlier bindings
\* of the same let already extend
letSeqLoop(bind, i, env, st, fuel) ==
    LET r == eval(bind[i].second, env, st, fuel)
        a == extend(bind[i].first, r.v, r.env, r.st.assoc)
    IN  CASE i > Len(bind) -> Ok(VoidV, env, st)
          [] r.k # "ok" -> r
          [] OTHER ->
                letSeqLoop(bind, i + 1, Len(a), [r.st EXCEPT !.assoc = a], fuel)

\* Let::eval returning with the body's environment installed in the
\* caller's Assoc
Let_eval_leak(x, env, st, fuel) ==
    LET vals == evalEach(BindExprs(x.bind), 1, <<>>, env, st, fuel)
        new_env == extendEach(BindNames(x.bind), vals.vals, 1,
                              vals.env, vals.st.assoc)
    IN  CASE vals.k # "ok" -> R(vals.k, vals.v, vals.env, vals.st)
          [] OTHER ->
                eval(x.body, new_env.env,
                     [vals.st EXCEPT !.assoc = new_env.assoc], fuel)

\* Let::eval binding sequentially (the let* discipline)
Let_eval_seq(x, env, st, fuel) ==
    LET b == letSeqLoop(x.bind, 1, env, st, fuel)
    IN  CASE b.k # "ok" -> [b EXCEPT !.env = env]
          [] OTHER -> [eval(x.body, b.env, b.st, fuel) EXCEPT !.env = env]

Let_eval(x, env, st, fuel) ==
    LET vals == evalEach(BindExprs(x.bind), 1, <<>>, env, st, fuel)
        new_env == extendEach(BindNames(x.bind), vals.vals, 1,
                              vals.env, vals.st.assoc)
    IN  CASE vals.k # "ok" -> R(vals.k, vals.v, vals.env, vals.st)
          [] OTHER ->
                [eval(x.body, new_env.env,
                      [vals.st EXCEPT !.assoc = new_env.assoc], fuel)
                    EXCEPT !.env = vals.env]

RECURSIVE letrecLoop(_, _, _, _, _)
\* for (binding : bind) modify(binding.first, binding.second->eval(new_env),
\* new_env), from index i on
letrecLoop(bind, i, new_env, st, fuel) ==
    LET val == eval(bind[i].second, new_env, st, fuel)
    IN  CASE i > Len(bind) -> Ok(VoidV, new_env, st)
          [] val.k # "ok" -> val
          [] OTHER ->
                letrecLoop(bind, i + 1, val.env,
                    [val.st EXCEPT !.assoc =
                        modify(bind[i].first, val.v, val.env, @)], fuel)

\* Letrec::eval with the right-hand sides evaluated in the outer environment
Letrec_eval_outer(x, env, st, fuel) == Let_eval(x, env, st, fuel)

Letrec_eval(x, env, st, fuel) ==
    LET xs == BindNames(x.bind)
        new_env == extendEach(xs, [i \in DOMAIN xs |-> NullPtr], 1, env, st.assoc)
        rhs == letrecLoop(x.bind, 1, new_env.env,
                          [st EXCEPT !.assoc = new_env.assoc], fuel)
    IN  CASE rhs.k # "ok" -> R(rhs.k, rhs.v, env, rhs.st)
          [] OTHER -> [eval(x.body, rhs.env, rhs.st, fuel) EXCEPT !.env = env]

\* Set::eval that rebinds var in a new node instead of writing the cell
Set_bind_shadow(var, val, env, st) ==
    LET a == extend(var, val, env, st.assoc)
    IN  IF find(var, env, st.assoc).t = "nullptr"
        THEN Throw("Undefined variable in set!: " \o var, env, st)
        ELSE Ok(VoidV, Len(a),
                [Log([ev |-> "set!", x |-> var], st) EXCEPT !.assoc = a])

\* Set::eval once the right-hand side has evaluated to val
Set_bind(var, val, env, st) ==
    IF find(var, env, st.assoc).t = "nullptr"
    THEN Throw("Undefined variable in set!: " \o var, env, st)
    ELSE Ok(VoidV, env, Log([ev |-> "set!", x |-> var],
                            [st EXCEPT !.assoc = modify(var, val, env, @)]))

Set_eval(x, env, st, fuel) ==
    LET val == eval(x.body, env, st, fuel)
    IN  CASE val.k # "ok" -> val
          [] OTHER -> Set_bind(x.var, val.v, val.env, val.st)

eval(x, env, st, fuel) ==
    CASE x.t = "Fixnum" -> Ok(IntegerV(x.n), env, st)
      [] x.t = "RationalNum" ->
            Ok(RationalV(NewId(st), x.numerator, x.denominator), env, Alloc(st))
      [] x.t = "StringExpr" -> Ok(StringV(NewId(st), x.s), env, Alloc(st))
      [] x.t = "True" -> Ok(BooleanV(TRUE), env, st)
      [] x.t = "False" -> Ok(BooleanV(FALSE), env, st)
      [] x.t = "MakeVoid" -> Ok(VoidV, env, st)
      [] x.t = "Exit" -> Ok(TerminateV(NewId(st)), env, Alloc(st))
      [] x.t \in UnaryTypes -> Unary_eval(x, env, st, fuel)
      [] x.t \in BinaryTypes -> Binary_eval(x, env, st, fuel)
      [] x.t \in VariadicTypes -> Variadic_eval(x, env, st, fuel)
      [] x.t = "Var" -> Var_eval(x, env, st)
      [] x.t = "Quote" -> Quote_eval(x, env, st)
      [] x.t = "Begin" -> Begin_eval(x, env, st, fuel)
      [] x.t = "AndVar" -> AndVar_eval(x, env, st, fuel)
      [] x.t = "OrVar" -> OrVar_eval(x, env, st, fuel)
      [] x.t = "If" -> If_eval(x, env, st, fuel)
      [] x.t = "Cond" -> Cond_eval(x, env, st, fuel)
      [] x.t = "Lambda" -> Lambda_eval(x, env, st)
      [] x.t = "Apply" -> Apply_eval(x, env, st, fuel)
      [] x.t = "Define" -> Define_eval(x, env, st, fuel)
      [] x.t = "Let" -> Let_eval(x, env, st, fuel)
      [] x.t = "Letrec" -> Letrec_eval(x, env, st, fuel)
      [] x.t = "Set" -> Set_eval(x, env, st, fuel)

-----------------------------------------------------------------------------
(* Top-level forms the REPL is fed.  A run draws its forms, in any order   *)
(* and with repetition, from one of the sessions below.                    *)

S(x) == Sym(x)
N(n) == Num(n)

\* (define (fact n) (if (= n 0) 1 (* n (fact (- n 1)))))
FactDefine ==
    L(<<S("define"), L(<<S("fact"), S("n")>>),
        L(<<S("if"), L(<<S("="), S("n"), N(0)>>), N(1),
            L(<<S("*"), S("n"),
                L(<<S("fact"), L(<<S("-"), S("n"), N(1)>>)>>)>>)>>)>>)

\* (fact n)
FactCall(n) == L(<<S("fact"), N(n)>>)

SessFact == <<FactDefine>> \o [i \in 1..(MaxN + 1) |-> FactCall(i - 1)]

\* the position of (fact n) in SessFact
FactCallAt(n) == n + 2

\* ((lambda (f) (f arg ...)) p): the primitive p passed as an argument and
\* applied inside
ReifiedUse(p, args) ==
    L(<<L(<<S("lambda"), L(<<S("f")>>), L(<<S("f")>> \o args)>>), S(p)>>)

\* (p arg ...)
DirectUse(p, args) == L(<<S(p)>> \o args)

ConsOneTwo == L(<<S("cons"), N(1), N(2)>>)

SessReify ==
    << ReifiedUse("+", <<N(1), N(2)>>),
       DirectUse("+", <<N(1), N(2)>>),
       L(<<S("define"), S("plus"), S("+")>>),
       L(<<S("plus"), N(1), N(2)>>),
       ReifiedUse("car", <<ConsOneTwo>>),
       DirectUse("car", <<ConsOneTwo>>),
       S("+") >>

\* one well-formed list per reserved word
SessSpecial1 ==
    << L(<<S("begin"), N(1), N(2)>>),
       L(<<S("quote"), S("a")>>),
       L(<<S("if"), TrueS, N(1), N(2)>>),
       L(<<S("cond"), L(<<FalseS, N(1)>>), L(<<S("else"), N(2)>>)>>),
       L(<<S("lambda"), L(<<S("x")>>), S("x")>>),
       L(<<S("and"), N(1), N(2)>>) >>

SessSpecial2 ==
    << L(<<S("define"), S("v"), N(1)>>),
       L(<<S("let"), L(<<L(<<S("a"), N(1)>>)>>), S("a")>>),
       L(<<S("letrec"), L(<<L(<<S("a"), N(1)>>)>>), S("a")>>),
       L(<<S("set!"), S("v"), N(2)>>),
       L(<<S("or"), FalseS, N(3)>>),
       L(<<S("if"), TrueS, N(1)>>) >>

\* the node List::parse is to build for each form of the two sessions
\* (the last form of SessSpecial2 is malformed)
SpecialNode1 == <<"Begin", "Quote", "If", "Cond", "Lambda", "AndVar">>
SpecialNode2 == <<"Define", "Let", "Letrec", "Set", "OrVar">>

SessAlias ==
    << L(<<S("define"), S("x"), N(1)>>),
       L(<<S("define"), L(<<S("getx")>>), S("x")>>),
       L(<<S("set!"), S("x"), N(2)>>),
       L(<<S("define"), S("x"), N(3)>>),
       L(<<S("getx")>>),
       L(<<S("define"), L(<<S("setx"), S("v")>>),
           L(<<S("set!"), S("x"), S("v")>>)>>),
       L(<<S("setx"), N(7)>>),
       S("x") >>

SessExtend ==
    << L(<<S("define"), L(<<S("f"), S("a")>>), S("a")>>),
       L(<<S("f"), N(1)>>),
       S("a"),
       L(<<S("let"), L(<<L(<<S("b"), N(2)>>)>>), S("b")>>),
       S("b"),
       L(<<S("letrec"), L(<<L(<<S("c"), N(3)>>)>>), S("c")>>),
       S("c"),
       L(<<S("let"), L(<<L(<<S("d"),
             L(<<S("define"), S("y"), N(1)>>)>>)>>), N(0)>>),
       L(<<L(<<S("lambda"), L(<<S("p")>>), S("p")>>),
           L(<<S("define"), S("z"), N(1)>>)>>) >>

SessDefine ==
    << L(<<S("define"), S("x"), N(1)>>),
       S("x"),
       L(<<S("define"), S("x"), N(2)>>),
       L(<<S("set!"), S("x"), N(5)>>),
       L(<<S("define"), S("y"), L(<<S("+"), S("x"), N(1)>>)>>),
       L(<<S("define"), L(<<S("bump")>>), L(<<S("set!"), S("x"), N(9)>>)>>),
       L(<<S("bump")>>) >>

\* (letrec ((even? (lambda (n) (if (= n 0) #t (odd? (- n 1)))))
\*          (odd? (lambda (n) (if (= n 0) #f (even? (- n 1))))))
\*   (even? n))
EvenForm(n) ==
    LET other(me, base, you) ==
            L(<<S(me), L(<<S("lambda"), L(<<S("n")>>),
                L(<<S("if"), L(<<S("="), S("n"), N(0)>>), base,
                    L(<<S(you), L(<<S("-"), S("n"), N(1)>>)>>)>>)>>)>>)
    IN  L(<<S("letrec"),
            L(<<other("even?", TrueS, "odd?"), other("odd?", FalseS, "even?")>>),
            L(<<S("even?"), N(n)>>)>>)

LetrecOf(bindings, body) ==
    L(<<S("letrec"),
        L([i \in DOMAIN bindings |-> L(<<S(bindings[i][1]), bindings[i][2]>>)]),
        body>>)

LetOf(bindings, body) ==
    L(<<S("let"),
        L([i \in DOMAIN bindings |-> L(<<S(bindings[i][1]), bindings[i][2]>>)]),
        body>>)

SessLetrec ==
    << EvenForm(MaxEven),
       EvenForm(1),
       L(<<S("define"), S("odd?"), N(0)>>) >>

SessPlaceholder ==
    << LetrecOf(<< <<"a", S("b")>>, <<"b", N(1)>> >>, S("a")),
       L(<<S("define"), S("b"), N(5)>>),
       LetrecOf(<< <<"a", N(1)>>, <<"b", S("a")>> >>, S("b")),
       LetrecOf(<< <<"car", S("car")>> >>, N(0)),
       LetrecOf(<< <<"a", L(<<S("lambda"), L(<<>>), S("b")>>)>>,
                   <<"b", N(2)>> >>, L(<<S("a")>>)) >>

SessLet ==
    << L(<<S("define"), S("x"), N(5)>>),
       LetOf(<< <<"x", N(1)>>, <<"y", S("x")>> >>, S("y")),
       LetOf(<< <<"x", N(1)>>, <<"y", N(2)>> >>, L(<<S("+"), S("x"), S("y")>>)),
       LetOf(<< <<"car", N(1)>>, <<"y", S("car")>> >>, S("y")),
       L(<<S("define"), S("z"), N(10)>>),
       LetOf(<< <<"x", N(1)>> >>, L(<<S("+"), S("x"), S("z")>>)),
       LetOf(<< <<"y", S("x")>>, <<"x", N(1)>> >>, S("y")) >>

SessRational ==
    << L(<<S("+"), Rat(1, 2), Rat(1, 3)>>),
       L(<<S("/"), N(3), N(6)>>),
       L(<<S("/"), N(-3), N(6)>>),
       L(<<S("-"), Rat(1, 2)>>),
       L(<<S("+"), Rat(1, 2), Rat(1, 2)>>),
       Rat(2, 4),
       L(<<S("quote"), Rat(4, 2)>>),
       L(<<S("*"), Rat(2, 3), Rat(3, 4), N(-2)>>),
       L(<<S("-"), N(2), Rat(1, 2)>>) >>

\* a list made cyclic, the modulo of INT_MIN by -1, int sums and products
\* at the ends of the range
SessOutcomes ==
    << L(<<S("define"), S("p"), L(<<S("cons"), N(1), N(2)>>)>>),
       L(<<S("set-cdr!"), S("p"), S("p")>>),
       L(<<S("list?"), S("p")>>),
       L(<<S("modulo"), L(<<S("-"), N(-INT_MAX), N(1)>>), N(-1)>>),
       L(<<S("+"), N(INT_MAX), N(1)>>),
       L(<<S("modulo"), N(-7), N(-1)>>),
       L(<<S("*"), N(65536), N(-32768)>>),
       L(<<S("begin"), L(<<S("*"), N(65536), N(32768)>>), N(0)>>) >>

\* inner binders named like a primitive; Inc is (lambda (x) (+ x 1))
Inc == L(<<S("lambda"), L(<<S("x")>>), L(<<S("+"), S("x"), N(1)>>)>>)

SessShadow ==
    << L(<<L(<<S("lambda"), L(<<S("car")>>), L(<<S("car"), N(5)>>)>>), Inc>>),
       L(<<S("let"), L(<<L(<<S("car"), Inc>>)>>), L(<<S("car"), N(5)>>)>>),
       L(<<S("letrec"), L(<<L(<<S("cdr"), Inc>>)>>), L(<<S("cdr"), N(5)>>)>>),
       L(<<L(<<S("lambda"), L(<<S("car")>>), S("car")>>), N(7)>>),
       L(<<S("let"), L(<<L(<<S("car"), N(8)>>)>>), S("car")>>),
       L(<<L(<<S("lambda"), L(<<S("f")>>), L(<<S("f"), N(5)>>)>>), Inc>>) >>

\* operands with effects: Bump is (begin (set! x (+ x 1)) x), Twice is
\* (begin (set! x (* x 2)) x); LetX(body) is (let ((x 1)) body)
Bump == L(<<S("begin"), L(<<S("set!"), S("x"), L(<<S("+"), S("x"), N(1)>>)>>), S("x")>>)
Twice == L(<<S("begin"), L(<<S("set!"), S("x"), L(<<S("*"), S("x"), N(2)>>)>>), S("x")>>)
LetX(body) == L(<<S("let"), L(<<L(<<S("x"), N(1)>>)>>), body>>)

SessOrder ==
    << LetX(L(<<S("-"), Bump, Twice>>)),
       LetX(L(<<S("-"), Bump, Twice, N(0)>>)),
       LetX(L(<<L(<<S("lambda"), L(<<S("a"), S("b")>>),
                    L(<<S("-"), S("a"), S("b")>>)>>), Bump, Twice>>)),
       L(<<S("cons"), L(<<S("display"), N(1)>>), L(<<S("display"), N(2)>>)>>),
       L(<<S("list"), L(<<S("display"), N(1)>>), L(<<S("display"), N(2)>>)>>),
       LetX(L(<<S("cons"), Bump, S("x")>>)) >>

\* one pair reached through two variables, as the car of another pair and
\* through a closure that captured the variable
SessPairs ==
    << L(<<S("define"), S("p"), L(<<S("cons"), N(1), N(2)>>)>>),
       L(<<S("define"), S("q"), S("p")>>),
       L(<<S("define"), S("w"),
           L(<<S("cons"), S("p"), L(<<S("lambda"), L(<<>>), S("p")>>)>>)>>),
       L(<<S("set-car!"), S("q"), N(9)>>),
       L(<<S("set-cdr!"), L(<<S("car"), S("w")>>), N(8)>>),
       L(<<S("set-car!"), L(<<L(<<S("cdr"), S("w")>>)>>), N(7)>>) >>

\* cond forms whose tests and bodies display a number when evaluated:
\* Shown(n, v) is (begin (display n) v)
Shown(n, v) == L(<<S("begin"), L(<<S("display"), N(n)>>), v>>)
Disp(n) == L(<<S("display"), N(n)>>)
Quoted(x) == L(<<S("quote"), S(x)>>)

SessCond ==
    << L(<<S("cond"), L(<<Shown(1, FalseS), Disp(2)>>),
                      L(<<Shown(3, N(4)), Disp(5), Disp(6), N(7)>>),
                      L(<<Shown(8, TrueS), N(9)>>),
                      L(<<S("else"), Disp(10)>>)>>),
       L(<<S("cond"), L(<<S("else"), Disp(1), Quoted("c")>>),
                      L(<<Shown(2, TrueS), N(3)>>)>>),
       L(<<S("cond"), L(<<Shown(1, FalseS), Quoted("a")>>)>>),
       L(<<S("let"), L(<<L(<<S("else"), FalseS>>)>>),
           L(<<S("cond"), L(<<S("else"), N(7)>>)>>)>>),
       L(<<S("cond"), L(<<Shown(1, FalseS)>>), L(<<Shown(2, N(6))>>),
                      L(<<Shown(3, N(5))>>)>>),
       L(<<S("cond"), L(<<L(<<S("="), N(1), N(2)>>), Quoted("a")>>),
                      L(<<L(<<S("="), N(2), N(2)>>), Quoted("b")>>),
                      L(<<S("else"), Quoted("c")>>)>>) >>

\* and / or forms; Disp(n) shows whether an operand was evaluated
SessAndOr ==
    << L(<<S("and"), N(1), N(2), N(3)>>),
       L(<<S("and"), N(1), FalseS, Disp(3)>>),
       L(<<S("or"), FalseS, FalseS, N(7)>>),
       L(<<S("or")>>),
       L(<<S("and")>>),
       L(<<S("or"), N(0), Disp(1)>>) >>

\* defines of primitives and reserved words, in both define syntaxes, with
\* right-hand sides that display a number when evaluated
SessRedefine ==
    << L(<<S("define"), S("car"), Disp(1)>>),
       L(<<S("define"), L(<<S("cons"), S("a"), S("b")>>), S("a")>>),
       L(<<S("define"), S("if"), Disp(3)>>),
       L(<<S("define"), L(<<S("let"), S("x")>>), S("x")>>),
       L(<<S("define"), S("kar"), Disp(5)>>),
       L(<<S("define"), S("and"), Disp(6)>>),
       L(<<S("define"), L(<<S("kons"), S("a"), S("b")>>), S("a")>>) >>

\* applications: a closure called where its free variable y has another
\* local binding, a non-procedure operator, a wrong number of arguments
LetY(n, body) == L(<<S("let"), L(<<L(<<S("y"), N(n)>>)>>), body>>)

SessApply ==
    << L(<<S("define"), S("y"), N(1)>>),
       L(<<S("define"), L(<<S("gety")>>), S("y")>>),
       LetY(2, L(<<S("gety")>>)),
       LetY(1, L(<<S("let"), L(<<L(<<S("f"), L(<<S("lambda"), L(<<>>), S("y")>>)>>)>>),
                   LetY(2, L(<<S("f")>>))>>)),
       L(<<N(5), Disp(1)>>),
       L(<<L(<<S("lambda"), L(<<S("a"), S("b")>>), S("a")>>), Disp(1)>>),
       L(<<L(<<S("lambda"), L(<<S("a"), S("b")>>), L(<<S("-"), S("a"), S("b")>>)>>),
           N(5), N(3)>>),
       L(<<L(<<S("lambda"), L(<<S("y")>>), L(<<S("gety")>>)>>), N(2)>>) >>

\* a three-element list whose cdr chain is made improper, cyclic behind
\* its head, cyclic through its head, and proper again, and list? of it
\* and of fresh lists
SessListP ==
    << L(<<S("define"), S("p"), L(<<S("list"), N(1), N(2), N(3)>>)>>),
       L(<<S("list?"), S("p")>>),
       L(<<S("set-cdr!"), L(<<S("cdr"), S("p")>>), N(5)>>),
       L(<<S("set-cdr!"), L(<<S("cdr"), S("p")>>), L(<<S("cdr"), S("p")>>)>>),
       L(<<S("set-cdr!"), S("p"), S("p")>>),
       L(<<S("set-cdr!"), S("p"), L(<<S("list")>>)>>),
       L(<<S("list?"), L(<<S("list")>>)>>),
       L(<<S("list?"), L(<<S("list"), N(1), N(2)>>)>>) >>

\* defines inside a procedure body, a let body and a letrec body, a caller
\* that reads the callee's local name, and defines whose right-hand side
\* raises
SessLocal ==
    << L(<<S("define"), S("f"),
           L(<<S("lambda"), L(<<S("x")>>),
               L(<<S("define"), S("y"), L(<<S("+"), S("x"), N(1)>>)>>),
               L(<<S("*"), S("y"), N(2)>>)>>)>>),
       L(<<S("f"), N(3)>>),
       L(<<S("define"), S("h"),
           L(<<S("lambda"), L(<<S("q")>>), L(<<S("f"), S("q")>>), S("y")>>)>>),
       L(<<S("h"), N(3)>>),
       L(<<S("let"), L(<<L(<<S("a"), N(1)>>)>>),
           L(<<S("define"), S("z"), L(<<S("+"), S("a"), N(1)>>)>>),
           L(<<S("+"), S("a"), S("z")>>)>>),
       L(<<S("letrec"),
           L(<<L(<<S("g"), L(<<S("lambda"), L(<<>>),
                               L(<<S("define"), S("u"), N(4)>>),
                               L(<<S("+"), S("u"), N(1)>>)>>)>>)>>),
           L(<<S("define"), S("w"), L(<<S("g")>>)>>),
           S("w")>>),
       L(<<S("f"), Quoted("a")>>),
       L(<<S("define"), S("v"), L(<<S("car"), N(1)>>)>>),
       L(<<S("define"), S("f"), L(<<S("car"), N(1)>>)>>) >>

\* number? of Integers, of Rationals (computed and literal) and of values
\* that are not numbers
SessNumberP ==
    << L(<<S("number?"), N(5)>>),
       L(<<S("number?"), L(<<S("/"), N(1), N(2)>>)>>),
       L(<<S("number?"), Rat(1, 2)>>),
       L(<<S("number?"), L(<<S("/"), N(4), N(2)>>)>>),
       L(<<S("number?"), Quoted("a")>>),
       L(<<S("number?"), TrueS>>),
       L(<<S("number?"), Str("s")>>),
       L(<<S("number?"), L(<<S("list")>>)>>) >>

Sessions ==
    [fact |-> SessFact, reify |-> SessReify, special1 |-> SessSpecial1,
     special2 |-> SessSpecial2, alias |-> SessAlias, extend |-> SessExtend,
     define |-> SessDefine, letrec |-> SessLetrec,
     placeholder |-> SessPlaceholder, let |-> SessLet,
     rational |-> SessRational, outcomes |-> SessOutcomes,
     shadow |-> SessShadow, order |-> SessOrder, pairs |-> SessPairs,
     cond |-> SessCond, andor |-> SessAndOr, redefine |-> SessRedefine,
     apply |-> SessApply, listp |-> SessListP,
     local |-> SessLocal, numberp |-> SessNumberP]

-----------------------------------------------------------------------------
(* The REPL (main.cpp): read a form, parse it against the global           *)
(* environment, evaluate it there, print; a RuntimeError is caught and the *)
(* loop goes on; the Terminate sentinel ends it.                           *)

Init ==
    /\ global_env = empty
    /\ store = EmptyStore
    /\ session \in DOMAIN Sessions
    /\ form = 0
    /\ result = [k |-> "none", v |-> VoidV]
    /\ count = 0
    /\ argOrder \in {"ltr", "rtl"}
    /\ halted = FALSE
    /\ numA = IntegerV(0)
    /\ numB = IntegerV(0)
    /\ varResult = [k |-> "none", v |-> VoidV]

\* the store a top-level form starts in
FormStore == [store EXCEPT !.trace = <<>>]

\* the parsed form number i of the session
Parsed(i) == parse(Sessions[session][i], global_env, store.assoc)

\* what an undefined machine operation does in the build: the process is
\* ended by a trap, or the operation wraps around and evaluation goes on
UndefinedOutcomes == {"wrap", "trap"}

\* whether an undefined operation is among the events of a trace
HasUndefined(trace) == \E j \in DOMAIN trace : trace[j].ev = "undefined"

\* the outcome of evaluating the parsed form x at top level
RunIn(x, ub) == eval(x, global_env, [FormStore EXCEPT !.ub = ub], MaxDepth)
Run(x) == RunIn(x, "wrap")

\* a form that does not parse: the error is reported, nothing changes
ReadBadForm(i) ==
    /\ ~halted
    /\ count < MaxForms
    /\ IsErr(Parsed(i))
    /\ form' = i
    /\ count' = count + 1
    /\ result' = [k |-> "parse-err", v |-> Parsed(i)]
    /\ UNCHANGED <<global_env, store, session, argOrder, halted, numA, numB,
                   varResult>>

\* the outcomes form number i can have: that of a build that wraps around
\* and, if the form executes an undefined operation, that of one that traps
Outcomes(i) ==
    LET w == RunIn(Parsed(i), "wrap")
    IN  IF HasUndefined(w.st.trace) THEN {w, RunIn(Parsed(i), "trap")} ELSE {w}

\* a form that parses is evaluated in the global environment
ReadEval(i) ==
    /\ ~halted
    /\ count < MaxForms
    /\ ~IsErr(Parsed(i))
    /\ \E r \in Outcomes(i) :
         /\ global_env' = r.env
         /\ store' = [r.st EXCEPT !.ub = "wrap"]
         /\ result' = [k |-> r.k, v |-> r.v]
         /\ halted' = (r.k \in {"deep", "diverges", "undefined"}
                       \/ (r.k = "ok" /\ r.v.t = "V_TERMINATE"))
    /\ form' = i
    /\ count' = count + 1
    /\ UNCHANGED <<session, argOrder, numA, numB, varResult>>

Next ==
    \/ \E i \in DOMAIN Sessions[session] : ReadBadForm(i)
    \/ \E i \in DOMAIN Sessions[session] : ReadEval(i)

Spec == Init /\ [][Next]_vars

-----------------------------------------------------------------------------
(* The numeric primitives on their own: expt and the five comparisons are  *)
(* applied once to a pair of operand values drawn from the ends of the int *)
(* range and from normalized rationals around them.                        *)

ExptBases == {INT_MIN, -46341, -46340, -3, -2, -1, 0, 1, 2, 3, 46340, 46341, INT_MAX}
ExptExponents == {-1, 0, 1, 2, 3, 19, 20, 30, 31, 32, INT_MAX}
NumericIntegers == {IntegerV(n) : n \in ExptBases \cup ExptExponents}
NumericRationals ==
    {RationalV(0, pq[1], pq[2]) :
        pq \in {<<1, 2>>, <<-1, 2>>, <<1, 3>>, <<2, 3>>, <<65536, 3>>,
                <<2, 32769>>, <<INT_MAX, 2>>, <<-INT_MAX, 2>>, <<1, INT_MAX>>}}
NumericValues == NumericIntegers \cup NumericRationals

\* the operations applied, by number
NumericOps == <<"Expt", "Less", "LessEq", "Equal", "GreaterEq", "Greater">>

InitNumeric ==
    /\ global_env = empty
    /\ store = EmptyStore
    /\ session = "numeric"
    /\ form = 0
    /\ result = [k |-> "none", v |-> VoidV]
    /\ count = 0
    /\ argOrder = "ltr"
    /\ halted = FALSE
    /\ numA \in NumericValues
    /\ numB \in NumericValues
    /\ varResult = [k |-> "none", v |-> VoidV]

\* (op numA numB) for the Binary node type NumericOps[i], the operands
\* already evaluated
ApplyNumeric(i) ==
    /\ form = 0
    /\ \E ub \in UndefinedOutcomes :
         LET r == Rator(Binary_evalRator(NumericOps[i], numA, numB,
                                         [store EXCEPT !.ub = ub]), global_env)
         IN  /\ store' = [r.st EXCEPT !.ub = "wrap"]
             /\ result' = [k |-> r.k, v |-> r.v]
             /\ halted' = (r.k = "undefined")
    /\ form' = i
    /\ count' = count + 1
    /\ UNCHANGED <<global_env, session, argOrder, numA, numB, varResult>>

ApplyExpt == ApplyNumeric(1)

ApplyCompare == \E i \in 2..Len(NumericOps) : ApplyNumeric(i)

NextNumeric == ApplyExpt \/ ApplyCompare

SpecNumeric == InitNumeric /\ [][NextNumeric]_vars

-----------------------------------------------------------------------------
(* The binary nodes next to the variadic nodes: in one build, the binary   *)
(* node of an operator is applied to a pair of operand values, then the    *)
(* variadic node of the same operator to the vector of the same two.       *)

\* values that are neither Integer nor Rational
NonNumericValues == {BooleanV(TRUE), SymbolV("a"), NullV, VoidV}
OperandValues == NumericValues \cup NonNumericValues

\* the binary node type and the variadic node type of each operator
NodePairs ==
    << <<"Plus", "PlusVar">>, <<"Minus", "MinusVar">>, <<"Mult", "MultVar">>,
       <<"Div", "DivVar">>, <<"Less", "LessVar">>, <<"LessEq", "LessEqVar">>,
       <<"Equal", "EqualVar">>, <<"GreaterEq", "GreaterEqVar">>,
       <<"Greater", "GreaterVar">> >>

InitNodes ==
    /\ global_env = empty
    /\ \E ub \in UndefinedOutcomes : store = [EmptyStore EXCEPT !.ub = ub]
    /\ session = "nodes"
    /\ form = 0
    /\ result = [k |-> "none", v |-> VoidV]
    /\ count = 0
    /\ argOrder = "ltr"
    /\ halted = FALSE
    /\ numA \in OperandValues
    /\ numB \in OperandValues
    /\ varResult = [k |-> "none", v |-> VoidV]

\* evalRator(numA, numB) of the binary node of operator number i
ApplyBinaryNode(i) ==
    /\ form = 0
    /\ LET r == Rator(Binary_evalRator(NodePairs[i][1], numA, numB, store),
                      global_env)
       IN  /\ store' = r.st
           /\ result' = [k |-> r.k, v |-> r.v]
    /\ form' = i
    /\ count' = count + 1
    /\ UNCHANGED <<global_env, session, argOrder, halted, numA, numB,
                   varResult>>

\* evalRator({numA, numB}) of the variadic node of the same operator
ApplyVariadicNode ==
    /\ form \in DOMAIN NodePairs
    /\ varResult.k = "none"
    /\ LET r == Rator(Variadic_evalRator(NodePairs[form][2], <<numA, numB>>,
                                         store), global_env)
       IN  /\ store' = r.st
           /\ varResult' = [k |-> r.k, v |-> r.v]
    /\ count' = count + 1
    /\ UNCHANGED <<global_env, session, form, result, argOrder, halted,
                   numA, numB>>

NextNodes ==
    \/ \E i \in DOMAIN NodePairs : ApplyBinaryNode(i)
    \/ ApplyVariadicNode

SpecNodes == InitNodes /\ [][NextNodes]_vars

-----------------------------------------------------------------------------
(* Properties.  `form' is the session's form the last step read, `result'  *)
(* what it printed; the global environment and the store are those the     *)
(* form left behind.                                                       *)

\* the names bound in the global environment, innermost first
GlobalNames == names(global_env, store.assoc)

\* the global binding of x (NullPtr when there is none)
Lookup(x) == find(x, global_env, store.assoc)

\* the outcome the source text stx would have, read and evaluated now
RunSyntax(stx) == Run(parse(stx, global_env, store.assoc))

\* elements of a sequence
Range(seq) == {seq[i] : i \in DOMAIN seq}

RECURSIVE Factorial(_)
Factorial(n) == IF n = 0 THEN 1 ELSE n * Factorial(n - 1)

\* C1: after (define (fact n) (if (= n 0) 1 (* n (fact (- n 1))))) has
\* been evaluated at top level, the lookup of fact in the closure's captured
\* environment extended with the parameter finds the closure itself, and
\* (fact n) evaluates to n! for every n in 0..MaxN ((fact 5) to 120).
C1_DefineIsRecursive ==
    LET clo == Lookup("fact")
        inBody == extendEach(clo.parameters, <<IntegerV(0)>>, 1,
                             clo.env, store.assoc)
    IN  (session = "fact" /\ clo.t = "V_PROC")
            => /\ find("fact", inBody.env, inBody.assoc) = clo
               /\ form >= FactCallAt(0)
                    => /\ result.k = "ok"
                       /\ result.v = IntegerV(Factorial(form - FactCallAt(0)))

\* the pairs <<reified use, direct use>> of SessReify
ReifyPairs == {<<1, 2>>, <<4, 2>>, <<5, 6>>}

\* C2: applying a reified primitive (the Procedure Var::eval makes of an
\* unbound primitive name) to evaluated arguments yields what the direct
\* primitive node yields on the same arguments: + passed as an argument and
\* applied to 1 and 2 yields 3.
C2_ReifiedPrimitiveDispatch ==
    \A pr \in ReifyPairs :
        (session = "reify" /\ form = pr[1]
            /\ (pr[1] = 4 => Lookup("plus").t = "V_PROC"))
            => LET direct == Run(Parsed(pr[2]))
               IN  result.k = direct.k /\ result.v = direct.v

\* C3: a well-formed list headed by a reserved word (begin quote if cond
\* lambda define let letrec set! and or), the head neither bound nor a
\* primitive, parses to that word's special-form node; parse never raises
\* 'Unknown reserved word' for a name of the table.
C3_ReservedWordsParse ==
    /\ (session = "special1" /\ form >= 1)
        => /\ result.k # "parse-err"
           /\ Parsed(form).t = SpecialNode1[form]
    /\ (session = "special2" /\ form \in DOMAIN SpecialNode2)
        => /\ result.k # "parse-err"
           /\ Parsed(form).t = SpecialNode2[form]

\* C4: a modify of a captured cell is visible through every alias.  Once
\* the closure getx has captured an environment that binds x, a call of
\* getx returns the current global x whatever set! or define of x came in
\* between; a set! of x at top level or inside the body of setx is what
\* the next lookup of x outside finds.
C4_ModifyVisibleThroughAliases ==
    LET getx == Lookup("getx")
        call == RunSyntax(L(<<S("getx")>>))
    IN  session = "alias"
            => /\ (getx.t = "V_PROC"
                    /\ find("x", getx.env, store.assoc).t # "nullptr")
                    => (call.k = "ok" /\ call.v = Lookup("x"))
               /\ (form = 3 /\ result.k = "ok") => Lookup("x") = IntegerV(2)
               /\ (form = 4 /\ result.k = "ok") => Lookup("x") = IntegerV(3)
               /\ (form = 7 /\ result.k = "ok") => Lookup("x") = IntegerV(7)
               /\ (form = 5 /\ result.k = "ok") => result.v = Lookup("x")

\* getx captured x = 1, x was then set to 2 at top level, and getx reads 2
C4_Witness ==
    /\ session = "alias" /\ form = 3 /\ result.k = "ok"
    /\ Lookup("getx").t = "V_PROC"
    /\ find("x", Lookup("getx").env, store.assoc) = IntegerV(2)
    /\ RunSyntax(L(<<S("getx")>>)).v = IntegerV(2)

\* a step that read form number i of the session and evaluated it
Evaluated(i) == count' = count + 1 /\ form' = i /\ result'.k # "parse-err"

\* the forms of the session
Forms == DOMAIN Sessions[session]

\* the names on which the form just evaluated ran a define
DefinedNames == {ev.x : ev \in {e \in Range(store.trace) : e.ev = "define"}}

\* the names on which the form just evaluated ran a define or a set!
WrittenNames ==
    {ev.x : ev \in {e \in Range(store.trace) : e.ev \in {"define", "set!"}}}

\* the closures bound in the global environment
GlobalClosures ==
    {v \in {Lookup(x) : x \in Range(GlobalNames)} : v.t = "V_PROC"}

\* C5 as stated: evaluating Apply, Let or Letrec leaves the set of names
\* bound in the environment the form was evaluated in the same as before.
C5_NamesUnchanged ==
    [][\A i \in Forms :
        (Evaluated(i) /\ Parsed(i).t \in {"Apply", "Let", "Letrec"})
            => GlobalNames' = GlobalNames]_vars

\* C5, amended: evaluating Apply, Let or Letrec adds no parameter, let or
\* letrec binding to the environment the form was evaluated in nor to a
\* procedure's captured environment: every binding present before is
\* still there, in the same order; the only names added are names a Define
\* inside the form ran on (none: the environment is the same one); every
\* closure bound there keeps the names of its captured environment; and a
\* parameter or let/letrec name of an earlier form is unbound afterwards
\* (reading a, b or c at top level is an error).
C5_ExtendNonDestructive ==
    [][\A i \in Forms :
        /\ (Evaluated(i) /\ Parsed(i).t \in {"Apply", "Let", "Letrec"})
            => LET added == Len(GlobalNames') - Len(GlobalNames)
               IN  /\ added >= 0
                   /\ SubSeq(GlobalNames', added + 1, Len(GlobalNames'))
                        = GlobalNames
                   /\ \A j \in 1..added : GlobalNames'[j] \in DefinedNames'
                   /\ DefinedNames' = {} => global_env' = global_env
                   /\ \A c \in GlobalClosures :
                        names(c.env, store'.assoc) = names(c.env, store.assoc)
        /\ (Evaluated(i) /\ session = "extend" /\ i \in {3, 5, 7})
            => result'.k = "err"]_vars

\* (lambda (p) p) was applied to (define z 1): z is bound globally, p is not
C5_Witness ==
    /\ session = "extend" /\ form = 9 /\ result.k = "ok"
    /\ Lookup("z") = IntegerV(1)
    /\ Lookup("p").t = "nullptr"
    /\ Lookup("f").t = "V_PROC"

\* C6: a top-level Define of an unbound name extends the global environment
\* in place with the value its expression evaluated to; of a bound name, it
\* modifies the existing cell and adds no binding; and from one top-level
\* form to the next a name keeps its value unless the form ran a define or
\* a set! on it.
C6_DefineExtendsInPlace ==
    [][\A i \in Forms : Evaluated(i)
        => LET x == Parsed(i)
               val == eval(x.body, global_env, FormStore, MaxDepth)
           IN  /\ (x.t = "Define" /\ result'.k = "ok")
                    => /\ Lookup(x.var)' = val.v
                       /\ Lookup(x.var).t = "nullptr"
                            => /\ GlobalNames' = <<x.var>> \o GlobalNames
                               /\ store'.assoc[global_env'].next = global_env
                       /\ Lookup(x.var).t # "nullptr"
                            => /\ GlobalNames' = GlobalNames
                               /\ global_env' = global_env
               /\ \A n \in Range(GlobalNames) \ WrittenNames' :
                    Lookup(n)' = Lookup(n)]_vars

\* x was defined, defined again as 2, and the next form read x as 2
C6_Witness ==
    /\ session = "define" /\ count = 3 /\ form = 2
    /\ result.k = "ok" /\ result.v = IntegerV(2)
    /\ GlobalNames = <<"x">>
    /\ Len(store.assoc) = 1

\* C7: letrec supports forward and mutual reference: with even? and odd?
\* bound by one letrec, each calling the other, (even? n) is #t exactly
\* when n is even, for every n in 0..MaxEven, in whatever state the form is
\* evaluated; so are the two such forms the session reads.
C7_LetrecMutualRecursion ==
    session = "letrec"
        => /\ \A n \in 0..MaxEven :
                LET r == RunSyntax(EvenForm(n))
                IN  r.k = "ok" /\ r.v = BooleanV(n % 2 = 0)
           /\ form = 1 => (result.k = "ok"
                            /\ result.v = BooleanV(MaxEven % 2 = 0))
           /\ form = 2 => (result.k = "ok" /\ result.v = BooleanV(FALSE))

\* (even? MaxEven) was read and answered
C7_Witness ==
    /\ session = "letrec" /\ form = 1 /\ count >= 1
    /\ result.k = "ok" /\ result.v = BooleanV(MaxEven % 2 = 0)

\* C8: in Letrec a right-hand side that reads a letrec name whose cell is
\* not yet assigned raises 'Undefined variable', even when an outer binding
\* of the name exists; reading a name an earlier binding of the same letrec
\* assigned returns that value, and so does calling a procedure that
\* closed over a name assigned later.
C8_LetrecPlaceholderRead ==
    session = "placeholder"
        => /\ form = 1 => (result.k = "err"
                            /\ result.v.msg = "Undefined variable: b")
           /\ form = 3 => (result.k = "ok" /\ result.v = IntegerV(1))
           /\ form = 4 => (result.k = "err"
                            /\ result.v.msg = "Undefined variable: car")
           /\ form = 5 => (result.k = "ok" /\ result.v = IntegerV(2))

\* the let forms of SessLet whose body returns what a right-hand side read:
\* <<form, the let-bound name the right-hand side reads>>
LetReads == {<<2, "x">>, <<4, "car">>, <<7, "x">>}

\* C9 as stated: a reference to a let-bound name from a right-hand side
\* resolves to the outer binding or raises 'Undefined variable'.
C9_RhsOuterOrUndefined ==
    \A rd \in LetReads :
        (session = "let" /\ form = rd[1])
            => IF Lookup(rd[2]).t # "nullptr"
               THEN result.k = "ok" /\ result.v = Lookup(rd[2])
               ELSE /\ result.k = "err"
                    /\ result.v.msg = "Undefined variable: " \o rd[2]

\* C9, amended: Let evaluates every right-hand side in the outer
\* environment before any binding is added: a reference to a let-bound name
\* from a right-hand side resolves to the outer binding, or, when the name
\* is unbound outside, to the reified primitive if it names a primitive and
\* to 'Undefined variable' otherwise; the body is evaluated in the outer
\* environment extended with all bindings.
C9_LetRhsInOuterEnv ==
    session = "let"
        => /\ \A rd \in LetReads :
                form = rd[1]
                    => CASE Lookup(rd[2]).t # "nullptr" ->
                                result.k = "ok" /\ result.v = Lookup(rd[2])
                         [] rd[2] \in DOMAIN primitives ->
                                /\ result.k = "ok"
                                /\ result.v.t = "V_PROC"
                                /\ result.v.parameters = <<>>
                                /\ result.v.e = Var(rd[2])
                         [] OTHER ->
                                /\ result.k = "err"
                                /\ result.v.msg = "Undefined variable: " \o rd[2]
           /\ form = 3 => (result.k = "ok" /\ result.v = IntegerV(3))
           /\ form = 6
                => IF Lookup("z").t = "nullptr"
                   THEN /\ result.k = "err"
                        /\ result.v.msg = "Undefined variable: z"
                   ELSE result.k = "ok" /\ result.v = IntegerV(11)

\* x is 5 outside, and (let ((x 1) (y x)) y) returned 5
C9_Witness ==
    /\ session = "let" /\ form = 2
    /\ Lookup("x") = IntegerV(5)
    /\ result.k = "ok" /\ result.v = IntegerV(5)

\* C10: every Rational value an evaluation returns (arithmetic, unary
\* negation, rational literals, quoted rational datums) has gcd(|p|,q) = 1
\* and q > 1; a result whose normalized denominator is 1 is an Integer.
C10_RationalsNormalized ==
    /\ (result.k = "ok" /\ result.v.t = "V_RATIONAL")
        => /\ gcd(Abs(result.v.numerator), result.v.denominator) = 1
           /\ result.v.denominator > 1
    /\ (session = "rational" /\ form = 5) => result.v = IntegerV(1)

\* C11: evaluating a parsed expression either returns a Value or raises a
\* RuntimeError: no evaluation enters a loop that never ends, and none
\* performs an undefined machine operation (the modulo of INT_MIN by -1, an
\* int overflow), whether the build traps on it or wraps around.
C11_ValueOrRuntimeError ==
    /\ result.k \notin {"diverges", "undefined"}
    /\ ~HasUndefined(store.trace)

\* C12: when a lambda parameter or a let/letrec variable has the name of a
\* primitive, a use of the name inside the body resolves to the runtime
\* binding: in head position ((lambda (car) (car 5)) inc), and the let and
\* letrec forms alike, call the bound procedure and return 6; as an
\* operand the name evaluates to the bound value.
C12_InnerBinderShadowsPrimitive ==
    (session = "shadow" /\ form > 0)
        => /\ result.k = "ok"
           /\ result.v = IntegerV(CASE form \in {1, 2, 3, 6} -> 6
                                     [] form = 4 -> 7
                                     [] form = 5 -> 8)

\* the values displayed by the form just evaluated, in order
Displayed == [j \in DOMAIN store.trace |-> store.trace[j].v]

\* C13: operands are evaluated strictly left to right in every node with
\* more than one operand, so result and effects are uniquely determined:
\* with x = 1, (- (begin (set! x (+ x 1)) x) (begin (set! x (* x 2)) x))
\* is 2 - 4 = -2 as a binary primitive, as a variadic primitive and as the
\* arguments of an application; (cons (display 1) (display 2)) and the
\* list form display 1 before 2.
C13_OperandsLeftToRight ==
    (session = "order" /\ form > 0)
        => /\ result.k = "ok"
           /\ form \in {1, 2, 3} => result.v = IntegerV(-2)
           /\ form \in {4, 5} => Displayed = <<IntegerV(1), IntegerV(2)>>
           /\ form = 6 => store.pairs[result.v.id] = [car |-> IntegerV(2), cdr |-> IntegerV(2)]

\* the expressions through which SessPairs reaches the pair
AliasExprs ==
    {S("p"), S("q"), L(<<S("car"), S("w")>>), L(<<L(<<S("cdr"), S("w")>>)>>)}

\* the pair a mutating form of SessPairs names, the field it sets, the value
MutTarget(i) == Sessions["pairs"][i].stxs[2]
MutField(i) == IF i = 5 THEN "cdr" ELSE "car"
MutValue(i) == IntegerV(Sessions["pairs"][i].stxs[3].n)

\* the outcome the source text stx has in environment env and store st
RunSyntaxIn(stx, env, st) ==
    eval(parse(stx, env, st.assoc), env, [st EXCEPT !.trace = <<>>], MaxDepth)

\* whether (eq? a b) is #t in (env, st)
IsAliasIn(a, b, env, st) ==
    LET r == RunSyntaxIn(L(<<S("eq?"), a, b>>), env, st)
    IN  r.k = "ok" /\ r.v = BooleanV(TRUE)

\* the value of (car a) / (cdr a) in (env, st)
FieldIn(f, a, env, st) == RunSyntaxIn(L(<<S(f), a>>), env, st).v

IsAlias(a, b) == IsAliasIn(a, b, global_env, store)
FieldOf(f, a) == FieldIn(f, a, global_env, store)

\* C16: set-car! and set-cdr! mutate the pair in place and keep its
\* identity: whenever (set-car! p v) is evaluated through any alias of the
\* pair, it returns Void and afterwards (car q) is v for every alias q
\* (another variable, the car of another pair, a variable captured by a
\* closure), (cdr q) is what it was and (eq? p q) is still #t;
\* symmetrically for set-cdr!.
C16_PairMutationInPlace ==
    \A i \in {4, 5, 6} :
        LET r == Run(Parsed(i))
            other == IF MutField(i) = "car" THEN "cdr" ELSE "car"
        IN  (session = "pairs" /\ r.k = "ok")
                => /\ r.v = VoidV
                   /\ \A q \in AliasExprs :
                         IsAlias(MutTarget(i), q)
                             => /\ IsAliasIn(MutTarget(i), q, r.env, r.st)
                                /\ FieldIn(MutField(i), q, r.env, r.st) = MutValue(i)
                                /\ FieldIn(other, q, r.env, r.st) = FieldOf(other, q)

\* (set-car! q 9) returned Void, and p, q, (car w) and ((cdr w)) are one
\* pair whose car is 9
C16_Witness ==
    /\ session = "pairs" /\ form = 4
    /\ result.k = "ok" /\ result.v = VoidV
    /\ \A q \in AliasExprs : IsAlias(S("p"), q) /\ FieldOf("car", q) = IntegerV(9)

\* the numbers displayed by the form just evaluated, in order
DisplayedNumbers == [j \in DOMAIN store.trace |-> store.trace[j].v.n]

\* C17: cond examines its clauses in order and stops at the first one whose
\* test is not #f (tests and bodies of later clauses are not evaluated); a
\* clause headed by else is taken without evaluating else as a variable,
\* bound or not; a one-element clause returns the value of its test;
\* otherwise the rest of the clause is evaluated in order and the last value
\* returned; when no clause matches the result is Void.
C17_CondFirstMatch ==
    (session = "cond" /\ form > 0)
        => /\ result.k = "ok"
           /\ form = 1 => result.v = IntegerV(7) /\ DisplayedNumbers = <<1, 3, 5, 6>>
           /\ form = 2 => result.v = SymbolV("c") /\ DisplayedNumbers = <<1>>
           /\ form = 3 => result.v = VoidV /\ DisplayedNumbers = <<1>>
           /\ form = 4 => result.v = IntegerV(7)
           /\ form = 5 => result.v = IntegerV(6) /\ DisplayedNumbers = <<1, 2>>
           /\ form = 6 => result.v = SymbolV("b")

\* the four-clause cond returned 7 from its second clause after displaying
\* 1, 3, 5 and 6
C17_Witness ==
    /\ session = "cond" /\ form = 1
    /\ result.k = "ok" /\ result.v = IntegerV(7)
    /\ Len(store.trace) = 4

\* C18: and / or short-circuit.  (and 1 2 3) is 3, (and 1 #f (display 3))
\* is #f and displays nothing, (and) is #t; (or #f #f 7) is 7, (or) is #f,
\* and (or 0 (display 1)) is 0 (only the boolean #f is falsy) and displays
\* nothing.
C18_AndOrShortCircuit ==
    (session = "andor" /\ form > 0)
        => /\ result.k = "ok"
           /\ store.trace = <<>>
           /\ result.v = CASE form = 1 -> IntegerV(3)
                            [] form = 2 -> BooleanV(FALSE)
                            [] form = 3 -> IntegerV(7)
                            [] form = 4 -> BooleanV(FALSE)
                            [] form = 5 -> BooleanV(TRUE)
                            [] form = 6 -> IntegerV(0)

\* the names of the primitive table and of the reserved-word table
TableNames == DOMAIN primitives \cup DOMAIN reserved_words

\* C19: a Define of a name of the primitive or the reserved-word table
\* raises 'Cannot redefine primitive or reserved word: NAME' before its
\* right-hand side is evaluated (nothing is displayed, nothing allocated)
\* and leaves the environment as it was; so after any sequence of top-level
\* forms no name of the global environment is a primitive or a reserved
\* word.
C19_DefineRejectsTableNames ==
    [][/\ \A i \in Forms :
            (Evaluated(i) /\ Parsed(i).t = "Define" /\ Parsed(i).var \in TableNames)
                => /\ result'.k = "err"
                   /\ result'.v = RuntimeError(
                          "Cannot redefine primitive or reserved word: " \o Parsed(i).var)
                   /\ global_env' = global_env
                   /\ store' = FormStore
       /\ Range(GlobalNames') \cap TableNames = {}]_vars

\* (define car (display 1)) was rejected after kar had been defined
C19_Witness ==
    /\ session = "redefine" /\ form = 1 /\ count = 2
    /\ result.k = "err"
    /\ result.v.msg = "Cannot redefine primitive or reserved word: car"
    /\ GlobalNames = <<"kar">>
    /\ store.trace = <<>>

\* C20: Apply of a user procedure is lexically scoped and checks the
\* number of arguments.  A closure whose body reads the free variable y
\* returns the y visible where the lambda was created (1), also when it is
\* called inside (let ((y 2)) ...) or from a procedure whose parameter is y;
\* an operator that is not a procedure raises 'Attempt to apply a
\* non-procedure' before any argument is evaluated; a wrong number of
\* arguments raises 'Wrong number of arguments'; parameters are bound to the
\* arguments in order.
C20_ApplyLexicalScope ==
    (session = "apply" /\ form > 0)
        => /\ (form \in {3, 8} /\ result.k = "ok")
                => result.v = IntegerV(1) /\ Lookup("y") = IntegerV(1)
           /\ form = 4 => result.k = "ok" /\ result.v = IntegerV(1)
           /\ form = 5 => /\ result.k = "err"
                          /\ result.v = RuntimeError("Attempt to apply a non-procedure")
                          /\ store.trace = <<>>
           /\ form = 6 => /\ result.k = "err"
                          /\ result.v = RuntimeError("Wrong number of arguments")
           /\ form = 7 => result.k = "ok" /\ result.v = IntegerV(2)

\* y is 1 at top level, gety was defined after it, and (let ((y 2)) (gety))
\* returned 1
C20_Witness ==
    /\ session = "apply" /\ form = 3 /\ count = 3
    /\ result.k = "ok" /\ result.v = IntegerV(1)
    /\ Lookup("gety").t = "V_PROC"

\* the names a body of SessLocal defines, and the name of its top-level
\* define that raises
LocalNames == {"y", "z", "w", "u", "v"}

\* the forms of SessLocal in which the right-hand side of a define raises
RaisingDefines == {7, 8, 9}

\* h is defined and the environment it captured binds f to a procedure
HSeesF ==
    /\ Lookup("h").t = "V_PROC"
    /\ find("f", Lookup("h").env, store.assoc).t = "V_PROC"

\* C23: a define of a name that is not visible, executed inside a procedure
\* body or a let/letrec body, is local to that body: later expressions of
\* the same body see it, and after the call or let returns the caller's and
\* the top-level environment have no binding for that name; a define whose
\* right-hand side raises an error adds or modifies no binding at all.
C23_BodyDefineIsLocal ==
    [][session = "local"
        => /\ LocalNames \cap Range(GlobalNames') = {}
           /\ (form' = 2 /\ Lookup("f").t = "V_PROC")
                => result' = [k |-> "ok", v |-> IntegerV(8)]
           /\ (form' = 4 /\ HSeesF)
                => result' = [k |-> "err",
                              v |-> RuntimeError("Undefined variable: y")]
           /\ form' = 5 => result' = [k |-> "ok", v |-> IntegerV(3)]
           /\ form' = 6 => result' = [k |-> "ok", v |-> IntegerV(5)]
           /\ (form' \in RaisingDefines /\ (form' = 7 => Lookup("f").t = "V_PROC"))
                => /\ result'.k = "err"
                   /\ global_env' = global_env
                   /\ \A x \in Range(GlobalNames) : Lookup(x)' = Lookup(x)
                   /\ \A x \in Range(GlobalNames) :
                         Lookup(x).t = "V_PROC"
                             => names(Lookup(x).env, store.assoc)'
                                    = names(Lookup(x).env, store.assoc)
       ]_vars

\* (h 3) called f, whose body defined y and used it, and then found no y
\* in its own environment; the top level has none either
C23_Witness ==
    /\ session = "local" /\ form = 4
    /\ result = [k |-> "err", v |-> RuntimeError("Undefined variable: y")]
    /\ HSeesF
    /\ Lookup("y") = NullPtr

\* whether the arithmetic and the comparison operators accept v as an
\* operand (next to the Integer 0)
Accepted(v) ==
    /\ ~IsErr(Wrapped(addValues(v, IntegerV(0), 0)))
    /\ ~IsErr(Wrapped(multiplyValues(IntegerV(1), v, 0)))
    /\ ~IsErr(Wrapped(compareNumericValues(v, IntegerV(0))))

\* C24: number? agrees with the numeric tower accepted by the arithmetic
\* and comparison operators: (number? v) is #t for every Integer and every
\* Rational value v, and #f for every other value.
C24_NumberPAgreesWithTower ==
    (session = "numberp" /\ form > 0)
        => LET v == RunSyntax(Sessions[session][form].stxs[2]).v
           IN  /\ result.k = "ok"
               /\ Accepted(v) <=> v.t \in {"V_INT", "V_RATIONAL"}
               /\ result.v = BooleanV(Accepted(v))

RECURSIVE ChainEnd(_, _, _)
\* where the cdr chain from v ends: the first value that is not a pair,
\* or "cycle" if more pairs are passed than n (the heap holds n pairs)
ChainEnd(v, pairs, n) ==
    IF v.t # "V_PAIR" THEN v
    ELSE IF n = 0 THEN [t |-> "cycle"]
    ELSE ChainEnd(pairs[v.id].cdr, pairs, n - 1)

\* C22: list? walks the cdr chain of its argument: on a pair structure
\* whose cdr chain is acyclic it terminates and returns #t exactly when the
\* chain ends in Null ((list? (list ...)) is #t for every argument count,
\* a chain made improper by set-cdr! gives #f); on a pair whose cdr chain
\* has been made cyclic by set-cdr! it does not terminate.
C22_ListPWalksCdrChain ==
    LET p == Lookup("p")
        end == ChainEnd(p, store.pairs, Len(store.pairs))
    IN  session = "listp"
            => /\ (form = 2 /\ p # NullPtr)
                    => IF end.t = "cycle" THEN result.k = "diverges"
                       ELSE /\ result.k = "ok"
                            /\ result.v = BooleanV(end = NullV)
               /\ (form \in {7, 8})
                    => result.k = "ok" /\ result.v = BooleanV(TRUE)

\* (list? p) did not terminate: the cdr of p's second pair is that pair
C22_Witness ==
    /\ session = "listp" /\ form = 2 /\ result.k = "diverges"
    /\ Lookup("p").t = "V_PAIR"
    /\ LET second == store.pairs[Lookup("p").id].cdr
       IN  second.t = "V_PAIR" /\ store.pairs[second.id].cdr = second

-----------------------------------------------------------------------------
(* Properties of the numeric primitives (under SpecNumeric).               *)

RECURSIVE powRef(_, _)
\* b^e by e multiplications, while it stays within int
powRef(b, e) ==
    IF e = 0 THEN [in |-> TRUE, n |-> 1]
    ELSE LET p == powRef(b, e - 1)
         IN  IF ~p.in \/ MulOvf(p.n, b) THEN [in |-> FALSE, n |-> 0]
             ELSE [in |-> TRUE, n |-> p.n * b]

\* the mathematical b^e (e >= 0, not both 0) if it lies within
\* [-2^31, 2^31 - 1]; with |b| >= 2 and e > 31 it does not
Power(b, e) ==
    CASE b = 0 -> [in |-> TRUE, n |-> 0]
      [] b = 1 -> [in |-> TRUE, n |-> 1]
      [] b = -1 -> [in |-> TRUE, n |-> IF e % 2 = 0 THEN 1 ELSE -1]
      [] e > 31 -> [in |-> FALSE, n |-> 0]
      [] OTHER -> powRef(b, e)

\* C14: for int base and exponent, expt raises 'Negative exponent not
\* supported for integers' when the exponent is negative, '0^0 is undefined'
\* for (expt 0 0), returns base^exp exactly when that lies within
\* [-2^31, 2^31 - 1] ((expt -2 31) is -2^31) and raises 'Integer overflow
\* in expt' exactly when it does not; no 64-bit intermediate overflows.
C14_ExptExactOrOverflow ==
    (form = 1 /\ numA.t = "V_INT" /\ numB.t = "V_INT")
        => LET p == Power(numA.n, numB.n)
               raised(msg) == result.k = "err" /\ result.v = RuntimeError(msg)
           IN  /\ result.k # "undefined"
               /\ ~HasUndefined(store.trace)
               /\ CASE numB.n < 0 ->
                          raised("Negative exponent not supported for integers")
                    [] numA.n = 0 /\ numB.n = 0 -> raised("0^0 is undefined")
                    [] p.in -> result.k = "ok" /\ result.v = IntegerV(p.n)
                    [] OTHER -> raised("Integer overflow in expt")

\* (expt -2 31) returned -2^31
C14_Witness ==
    /\ form = 1 /\ numA = IntegerV(-2) /\ numB = IntegerV(31)
    /\ result.k = "ok" /\ result.v = IntegerV(INT_MIN)

\* whether the comparison node of type t returns #t on (a, b); where the
\* cross-multiplication overflows, as a build that wraps around computes it
Holds(t, a, b) == Wrapped(Compare_evalRator(t, a, b)) = BooleanV(TRUE)

\* whether comparing a and b executes no undefined operation
Comparable(a, b) == compareNumericValues(a, b).t # "undefined"

\* C15: the comparisons are a total order on Integers and normalized
\* Rationals, in all four combinations of operand types: every comparison
\* returns a boolean, exactly one of (< a b), (= a b), (> a b) holds,
\* (= a a) holds, (<= a b) and (<= b a) together are equivalent to (= a b),
\* and (<= a b) and (<= b c) imply (<= a c).
C15_ComparisonTotalOrder ==
    (form \in 2..Len(NumericOps))
        => LET a == numA
               b == numB
           IN  /\ result.k = "ok" /\ result.v.t = "V_BOOL"
               /\ ~HasUndefined(store.trace)
               /\ Comparable(a, b) /\ Comparable(b, a) /\ Comparable(a, a)
               /\ Cardinality({t \in {"Less", "Equal", "Greater"} : Holds(t, a, b)}) = 1
               /\ Holds("Equal", a, a)
               /\ (Holds("LessEq", a, b) /\ Holds("LessEq", b, a)) <=> Holds("Equal", a, b)
               /\ \A c \in NumericValues :
                     (Holds("LessEq", a, b) /\ Holds("LessEq", b, c))
                         => Holds("LessEq", a, c)

-----------------------------------------------------------------------------
(* Properties of the binary and variadic nodes (under SpecNodes).          *)

\* what of a value can be observed: a Rational by its numerator and
\* denominator (which object holds them cannot be)
Observed(v) ==
    IF v.t = "V_RATIONAL"
    THEN [t |-> "V_RATIONAL", numerator |-> v.numerator,
          denominator |-> v.denominator]
    ELSE v

\* C21: for each of + - * / < <= = >= > and every pair of values (Integer,
\* Rational or non-numeric), the binary node's evalRator(a, b) returns the
\* same value or raises the same error as the variadic node's
\* evalRator([a, b]).
C21_BinaryEqualsVariadic ==
    (form \in DOMAIN NodePairs /\ varResult.k # "none")
        => /\ result.k = varResult.k
           /\ Observed(result.v) = Observed(varResult.v)

\* (- 1/2 1/3) is 1/6 from the binary node and from the variadic node
C21_Witness ==
    /\ form = 2 /\ varResult.k = "ok"
    /\ numA = RationalV(0, 1, 2) /\ numB = RationalV(0, 1, 3)
    /\ Observed(result.v) =
           [t |-> "V_RATIONAL", numerator |-> 1, denominator |-> 6]
    /\ Observed(varResult.v) = Observed(result.v)

====
